---------------------------- MODULE Spec2Model ----------------------------
(***************************************************************************)
(* A model of the frame lifecycle, the processing-block pipeline and the   *)
(* error translation layer of realsense-rust.                              *)
(*                                                                         *)
(* The foreign runtime (librealsense2) is the environment: the outcome of  *)
(* every foreign call (null or non-null error slot, returned integer,      *)
(* returned handle) is an input chosen with \E.  What this layer does with *)
(* the outcome is translated from the Rust source.                         *)
(***************************************************************************)
EXTENDS Naturals, Integers, Sequences, FiniteSets, TLC

(***************************************************************************)
(* Bounds of the model.                                                    *)
(***************************************************************************)
\* number of foreign error resources / Error values created in one run
MaxErrs == 2

\* number of top-level foreign frames (captured bundles, stage outputs)
MaxFrames == 2

\* number of elements embedded in one bundle
MaxElems == 2

\* number of frame references this layer holds at one time
MaxRefs == 3

\* largest capacity a processing block's output queue is created with
MaxQueue == 1

\* number of elements in a bundle that travels through the pipeline
MaxBundle == 1

\* largest value set_option is given
MaxValue == 2

\* number of block values (constructed or cloned) in one run
MaxBlocks == 2

\* number of wrappers rebuilt from the raw handle of one frame
MaxXfers == 2

\* largest foreign severity value the runtime hands to the callback
MaxSeverity == 7

\* largest ordinal given to Rs2DistortionModel::from_u32
MaxOrdinal == 7

\* frames the stage has accepted, and room in the output queue, when the
\* order of the outputs is examined
MaxFifo == 2

\* ptr::null_mut(): the null pointer
NULL == 0

(***************************************************************************)
(* Foreign error messages, as sequences of characters.                     *)
(***************************************************************************)
TimeoutPrefix ==
    <<"F", "r", "a", "m", "e", " ", "d", "i", "d", "n", "'", "t", " ", "a",
      "r", "r", "i", "v", "e", " ", "w", "i", "t", "h", "i", "n", " ">>

UnsupportedOptionPrefix ==
    <<"o", "b", "j", "e", "c", "t", " ", "d", "o", "e", "s", "n", "'", "t",
      " ", "s", "u", "p", "p", "o", "r", "t", " ", "o", "p", "t", "i", "o",
      "n", " ", "#">>

\* the prefixes with their last character missing: what an off-by-one in
\* the literal would look for
TimeoutPrefixShort == SubSeq(TimeoutPrefix, 1, Len(TimeoutPrefix) - 1)

UnsupportedOptionPrefixShort ==
    SubSeq(UnsupportedOptionPrefix, 1, Len(UnsupportedOptionPrefix) - 1)

NotInTime ==
    <<"F", "r", "a", "m", "e", " ", "d", "i", "d", " ", "n", "o", "t", " ",
      "a", "r", "r", "i", "v", "e", " ", "i", "n", " ", "t", "i", "m", "e",
      "!">>

\* the messages the foreign runtime leaves in an error resource
Messages ==
    { TimeoutPrefix \o <<"5", "0">>,
      TimeoutPrefix,
      TimeoutPrefixShort,
      <<" ">> \o TimeoutPrefix \o <<"5">>,
      UnsupportedOptionPrefix \o <<"1", "2">>,
      UnsupportedOptionPrefixShort,
      <<"O">> \o Tail(UnsupportedOptionPrefix),
      NotInTime,
      <<>> }

VARIABLES
    \* ---- error translation layer (error.rs) ----
    eres,       \* foreign error resources: sequence of [msg, frees]
    checker,    \* the ErrorChecker in scope: [st, checked, ptr]
    evals,      \* Error values: [variant, ptr, st, frees, called, raw]
    panicked,   \* the program panicked
    eop,        \* the last operation of the error layer and its result
    \* ---- frames (frame/composite.rs, frame/pose.rs) ----
    frames,     \* foreign top-level frames: sequence of [nelems]
    held,       \* per handle: references this layer received and has neither
                \* released nor handed to the foreign runtime
    raws,       \* per handle: raw handles the caller took with get_owned_raw
    live,       \* per <<category, handle>>: live wrapper values holding it
    \* ---- processing blocks (processing_blocks/*.rs) ----
    block,      \* the processing block value: [st, kind, cap]
    stage,      \* number of frames the foreign stage accepted and has not
                \* processed yet
    fq,         \* the foreign output queue bound to the stage
    fed,        \* a frame was queued to the block at least once
    op,         \* the last operation on frames and blocks, with the foreign
                \* calls it issued and its result
    \* ---- block values and their foreign resources (align.rs, spatial.rs,
    \*      threshold.rs) ----
    pbs,        \* foreign processing stages: sequence of [deletes]
    qs,         \* foreign frame queues: sequence of [deletes, bound]
    blocks,     \* block values: sequence of [st, kind, pb, q, origin]
    \* ---- options of a Spatial block (spatial.rs) ----
    opt,        \* the option as the foreign stage has it:
                \* [supported, readonly, value]
    \* ---- raw handles given back to this layer (composite.rs, pose.rs) ----
    xfers,      \* per top-level handle: wrappers rebuilt from the raw handle
    \* ---- the foreign logger (logging.rs) ----
    logger,     \* the minimum severity each sink was given:
                \* [console, callback]
    \* ---- a device list and its iterator (device_list.rs) ----
    dl          \* [owner, count, index, len, fused, deletes, items]

errVars == <<eres, checker, evals, panicked, eop>>

frameVars == <<frames, held, raws, live>>

blockVars == <<block, stage, fq, fed>>

extVars == <<pbs, qs, blocks, opt, xfers, logger, dl>>

vars == <<eres, checker, evals, panicked, eop, frames, held, raws, live,
          block, stage, fq, fed, op, pbs, qs, blocks, opt, xfers, logger,
          dl>>

(***************************************************************************)
(* error.rs                                                                *)
(***************************************************************************)

\* Option<T>: None is <<>>, Some(x) is <<x>>
None == <<>>

Some(x) == <<x>>

\* str::starts_with(prefix)
starts_with(s, p) ==
    /\ Len(p) <= Len(s)
    /\ SubSeq(s, 1, Len(p)) = p

\* get_error_message: the message of the foreign error resource
get_error_message(res, ptr) == res[ptr].msg

\* ErrorChecker::new
ErrorChecker_new == [st |-> "live", checked |-> FALSE, ptr |-> NULL]

NoChecker == [st |-> "none", checked |-> FALSE, ptr |-> NULL]

\* Ok(()) and Err(e): `variant` names e's variant, `ptr` is the foreign error
\* resource e holds (NULL when it holds none), `context` the message e copied
OkResult == [tag |-> "Ok", variant |-> "-", ptr |-> NULL, context |-> <<>>]

ErrResult(variant, ptr) ==
    [tag |-> "Err", variant |-> variant, ptr |-> ptr, context |-> <<>>]

\* a translation that reports success whatever the slot holds
check_rs2_error_Swallow(res, err, variant) == OkResult

\* check_rs2_error!(err, result): Err(result(message.to_string())) when err is
\* non-null, keeping the copied message only; Ok(()) otherwise
check_rs2_error(res, err, variant) ==
    IF err # NULL
    THEN [ tag |-> "Err", variant |-> variant, ptr |-> NULL,
           context |-> get_error_message(res, err) ]
    ELSE OkResult

\* a check() that forgets to mark the checker as checked
ErrorChecker_check_Unmarked(c) ==
    [ checker |-> c,
      result  |->
        IF c.ptr # NULL
        THEN LET msg == get_error_message(eres, c.ptr)
             IN  IF starts_with(msg, TimeoutPrefix)
                 THEN ErrResult("Timeout", c.ptr)
                 ELSE IF starts_with(msg, UnsupportedOptionPrefix)
                      THEN ErrResult("UnsupportedOption", c.ptr)
                      ELSE ErrResult("Other", c.ptr)
        ELSE OkResult ]

\* a check() whose literals lost their last character
ErrorChecker_check_ShortPrefix(c) ==
    [ checker |-> [c EXCEPT !.checked = TRUE],
      result  |->
        IF c.ptr # NULL
        THEN LET msg == get_error_message(eres, c.ptr)
             IN  IF starts_with(msg, TimeoutPrefixShort)
                 THEN ErrResult("Timeout", c.ptr)
                 ELSE IF starts_with(msg, UnsupportedOptionPrefixShort)
                      THEN ErrResult("UnsupportedOption", c.ptr)
                      ELSE ErrResult("Other", c.ptr)
        ELSE OkResult ]

\* ErrorChecker::check: the checker after self.checked = true, and the Result
ErrorChecker_check(c) ==
    [ checker |-> [c EXCEPT !.checked = TRUE],
      result  |->
        IF c.ptr # NULL
        THEN LET msg == get_error_message(eres, c.ptr)
             IN  IF starts_with(msg, TimeoutPrefix)
                 THEN ErrResult("Timeout", c.ptr)
                 ELSE IF starts_with(msg, UnsupportedOptionPrefix)
                      THEN ErrResult("UnsupportedOption", c.ptr)
                      ELSE ErrResult("Other", c.ptr)
        ELSE OkResult ]

\* impl Drop for ErrorChecker: whether the destructor panics
ErrorChecker_drop_panics(c) == ~c.checked

\* Error::ptr
Error_ptr(e) ==
    IF e.variant = "ToCStrConversion" THEN None ELSE Some(e.ptr)

\* an Error value as constructed, before any operation on it
NewError(variant, ptr) ==
    [ variant |-> variant, ptr |-> ptr, st |-> "live", frees |-> 0,
      called |-> FALSE, raw |-> None ]

\* the foreign rs2_free_error(ptr), counted per resource
rs2_free_error(res, ptr) == [res EXCEPT ![ptr].frees = @ + 1]

\* impl Drop for Error: the value and the foreign resources after the drop
Error_drop(e, res) ==
    IF Error_ptr(e) # None
    THEN [ val |-> [e EXCEPT !.st = "dropped", !.frees = @ + 1],
           res |-> rs2_free_error(res, Error_ptr(e)[1]) ]
    ELSE [ val |-> [e EXCEPT !.st = "dropped"], res |-> res ]

\* an into_raw that returns the pointer and still lets the destructor run
Error_into_raw_NoForget(e, res) ==
    IF Error_ptr(e) = None
    THEN LET d == Error_drop(e, res)
         IN  [val |-> [d.val EXCEPT !.raw = None], res |-> d.res]
    ELSE LET d == Error_drop(e, res)
         IN  [val |-> [d.val EXCEPT !.raw = Some(e.ptr)], res |-> d.res]

\* Error::into_raw: `self.ptr()?` returns None early and self is dropped;
\* otherwise mem::forget(self) and Some(ptr)
Error_into_raw(e, res) ==
    IF Error_ptr(e) = None
    THEN LET d == Error_drop(e, res)
         IN  [val |-> [d.val EXCEPT !.raw = None], res |-> d.res]
    ELSE [ val |-> [e EXCEPT !.st = "forgotten", !.raw = Some(e.ptr)],
           res |-> res ]

----------------------------------------------------------------------------
(* Actions of the error layer *)

\* let mut checker = ErrorChecker::new();
NewChecker ==
    /\ ~panicked
    /\ checker.st = "none"
    /\ Len(evals) < MaxErrs
    /\ checker' = ErrorChecker_new
    /\ eop' = [name |-> "new", ptr |-> NULL, res |-> OkResult]
    /\ UNCHANGED <<eres, evals, panicked>>
    /\ UNCHANGED <<frameVars, blockVars, op>>
    /\ UNCHANGED extVars

\* a foreign call given checker.inner_mut_ptr(): it leaves the slot null, or
\* allocates an error resource with some message and stores it in the slot
ForeignCall ==
    /\ ~panicked
    /\ checker.st = "live"
    /\ eop.name = "new"
    /\ \/ /\ eop' = [name |-> "call", ptr |-> NULL, res |-> OkResult]
          /\ UNCHANGED <<eres, checker>>
       \/ \E m \in Messages :
            /\ eres' = Append(eres, [msg |-> m, frees |-> 0])
            /\ checker' = [checker EXCEPT !.ptr = Len(eres) + 1]
            /\ eop' = [name |-> "call", ptr |-> Len(eres) + 1, res |-> OkResult]
    /\ UNCHANGED <<evals, panicked>>
    /\ UNCHANGED <<frameVars, blockVars, op>>
    /\ UNCHANGED extVars

\* checker.check(): consumes the checker, whose destructor runs at the end
Check ==
    /\ ~panicked
    /\ checker.st = "live"
    /\ LET r == ErrorChecker_check(checker)
       IN  /\ panicked' = ErrorChecker_drop_panics(r.checker)
           /\ checker' = [r.checker EXCEPT !.st = "none"]
           /\ evals' = IF r.result.tag = "Err"
                       THEN Append(evals, NewError(r.result.variant, r.result.ptr))
                       ELSE evals
           /\ eop' = [name |-> "check", ptr |-> checker.ptr, res |-> r.result]
    /\ UNCHANGED eres
    /\ UNCHANGED <<frameVars, blockVars, op>>
    /\ UNCHANGED extVars

\* the checker goes out of scope without check() having been called
DropChecker ==
    /\ ~panicked
    /\ checker.st = "live"
    /\ panicked' = ErrorChecker_drop_panics(checker)
    /\ checker' = [checker EXCEPT !.st = "none"]
    /\ eop' = [name |-> "drop_checker", ptr |-> checker.ptr, res |-> OkResult]
    /\ UNCHANGED <<eres, evals>>
    /\ UNCHANGED <<frameVars, blockVars, op>>
    /\ UNCHANGED extVars

\* Error::ToCStrConversion(reason): an error with no foreign resource
NewToCStrConversion ==
    /\ ~panicked
    /\ Len(evals) < MaxErrs
    /\ evals' = Append(evals, NewError("ToCStrConversion", NULL))
    /\ eop' = [name |-> "to_cstr", ptr |-> NULL, res |-> OkResult]
    /\ UNCHANGED <<eres, checker, panicked>>
    /\ UNCHANGED <<frameVars, blockVars, op>>
    /\ UNCHANGED extVars

\* an Error value goes out of scope
DropError ==
    /\ ~panicked
    /\ \E i \in 1..Len(evals) :
         /\ evals[i].st = "live"
         /\ LET d == Error_drop(evals[i], eres)
            IN  /\ evals' = [evals EXCEPT ![i] = d.val]
                /\ eres' = d.res
         /\ eop' = [name |-> "drop_error", ptr |-> evals[i].ptr, res |-> OkResult]
    /\ UNCHANGED <<checker, panicked>>
    /\ UNCHANGED <<frameVars, blockVars, op>>
    /\ UNCHANGED extVars

\* error.into_raw()
IntoRaw ==
    /\ ~panicked
    /\ \E i \in 1..Len(evals) :
         /\ evals[i].st = "live"
         /\ LET d == Error_into_raw(evals[i], eres)
            IN  /\ evals' = [evals EXCEPT ![i] = [d.val EXCEPT !.called = TRUE]]
                /\ eres' = d.res
         /\ eop' = [name |-> "into_raw", ptr |-> evals[i].ptr, res |-> OkResult]
    /\ UNCHANGED <<checker, panicked>>
    /\ UNCHANGED <<frameVars, blockVars, op>>
    /\ UNCHANGED extVars

(***************************************************************************)
(* frame/composite.rs, frame/pose.rs                                       *)
(***************************************************************************)

\* frame handles: <<k>> is the k-th top-level frame of the foreign runtime,
\* <<k, i>> the frame embedded at index i of bundle <<k>>
ElemHandle(b, i) == b \o <<i>>

TopHandles == {<<k>> : k \in 1..MaxFrames}

AllHandles ==
    TopHandles
        \cup {<<k, i>> : k \in 1..MaxFrames,
                         i \in 0..(IF MaxElems > MaxBundle THEN MaxElems
                                   ELSE MaxBundle) - 1}

\* the categories F that frames_of_type is instantiated with
FrameCats == {"Depth", "Points"}

\* F::kind() == Rs2StreamKind::Any: the category accepts any stream kind
KindIsAny(cat) == cat = "Points"

\* the keys of the live wrapper values: <<category, handle>>
WrapperKeys ==
    ({"Composite", "Pose"} \X TopHandles) \cup (FrameCats \X AllHandles)

\* a foreign call as logged in `op.calls`; `by` is the place that issued it
Call(fn, arg, by) == [fn |-> fn, arg |-> arg, by |-> by]

\* impl From<NonNull<sys::rs2_frame>> for CompositeFrame, and the typed
\* frames built by F::try_from: a wrapper whose slot holds the handle
NewWrapper(cat, h) ==
    [cat |-> cat, h |-> h, slot |-> Some(h), rel |-> 0, xfer |-> FALSE]

\* a destructor that releases the handle twice
Frame_drop_Twice(w) ==
    IF w.slot # None
    THEN [ w     |-> [w EXCEPT !.rel = @ + 2],
           calls |-> << Call("rs2_release_frame", w.slot[1], "drop"),
                        Call("rs2_release_frame", w.slot[1], "drop") >> ]
    ELSE [w |-> w, calls |-> <<>>]

\* impl Drop for CompositeFrame (impl Drop for PoseFrame likewise releases
\* the handle it holds): the wrapper after its destructor and the foreign
\* calls the destructor made
Frame_drop(w) ==
    IF w.slot # None
    THEN [ w     |-> [w EXCEPT !.rel = @ + 1],
           calls |-> <<Call("rs2_release_frame", w.slot[1], "drop")>> ]
    ELSE [w |-> w, calls |-> <<>>]

\* a get_owned_raw that reads the handle and leaves it in the slot
get_owned_raw_KeepSlot(w) ==
    [w |-> [w EXCEPT !.xfer = TRUE], raw |-> w.slot[1]]

\* CompositeFrame::get_owned_raw: std::mem::take(&mut self.frame).unwrap();
\* the wrapper as it is when `self` then goes out of scope, and the handle
get_owned_raw(w) ==
    [w |-> [w EXCEPT !.slot = None, !.xfer = TRUE], raw |-> w.slot[1]]

\* DepthFrame::get_owned_raw, the input side of Spatial and Threshold
DepthFrame_get_owned_raw(w) == get_owned_raw(w)

\* the outcomes the foreign runtime can give for one element of a bundle
ElemOutcomes ==
    { "extract_err",   \* rs2_extract_frame left an error
      "ext_err",       \* rs2_is_frame_extendable_to left an error
      "not_ext",       \* rs2_is_frame_extendable_to returned 0
      "try_err",       \* F::try_from returned Err
      "bad_kind",      \* f.has_correct_kind() is false
      "ok" }           \* extendable, constructed, of the correct kind

\* the loop body without its `continue`: the element is released at the end
\* of the loop even when it was pushed
ExtractStep_NoContinue(b, i, o, kindAny) ==
    LET h       == ElemHandle(b, i)
        extract == Call("rs2_extract_frame", h, "loop")
        isext   == Call("rs2_is_frame_extendable_to", h, "loop")
        free    == Call("rs2_free_error", <<>>, "loop")
        release == Call("rs2_release_frame", h, "loop")
    IN  CASE o = "extract_err" ->
               [push |-> FALSE, calls |-> <<extract, free>>]
          [] o = "ext_err" ->
               [push |-> FALSE, calls |-> <<extract, isext, free, release>>]
          [] o \in {"not_ext", "try_err"} ->
               [push |-> FALSE, calls |-> <<extract, isext, release>>]
          [] o \in {"bad_kind", "ok"} ->
               IF kindAny \/ o = "ok"
               THEN [push |-> TRUE, calls |-> <<extract, isext, release>>]
               ELSE [ push  |-> FALSE,
                      calls |-> <<extract, isext>>
                                  \o Frame_drop(NewWrapper("F", h)).calls
                                  \o <<release>> ]

\* CompositeFrame::frames_of_type, the body of `for i in 0..self.count()`
\* for index i of bundle b under foreign outcome o: whether F is pushed,
\* and the foreign calls made
ExtractStep(b, i, o, kindAny) ==
    LET h       == ElemHandle(b, i)
        extract == Call("rs2_extract_frame", h, "loop")
        isext   == Call("rs2_is_frame_extendable_to", h, "loop")
        free    == Call("rs2_free_error", <<>>, "loop")
        release == Call("rs2_release_frame", h, "loop")
    IN  CASE o = "extract_err" ->
               \* sys::rs2_free_error(err); continue;
               [push |-> FALSE, calls |-> <<extract, free>>]
          [] o = "ext_err" ->
               \* sys::rs2_free_error(err); then the release at the loop's end
               [push |-> FALSE, calls |-> <<extract, isext, free, release>>]
          [] o \in {"not_ext", "try_err"} ->
               \* not extendable, or try_from failed: released at the end
               [push |-> FALSE, calls |-> <<extract, isext, release>>]
          [] o \in {"bad_kind", "ok"} ->
               \* if let Ok(f) = F::try_from(..) { if .. { push } continue; }
               IF kindAny \/ o = "ok"
               THEN [push |-> TRUE, calls |-> <<extract, isext>>]
               ELSE \* f goes out of scope unpushed: its destructor runs
                    [ push  |-> FALSE,
                      calls |-> <<extract, isext>>
                                  \o Frame_drop(NewWrapper("F", h)).calls ]

\* a count that passes the foreign value on when the query failed
count_Unchecked(n, countOk) == n

\* CompositeFrame::count: the foreign count, or 0 when the query fails
count(n, countOk) == IF countOk THEN n ELSE 0

\* the foreign calls of CompositeFrame::count on bundle b: the query, and
\* rs2_free_error when the query left an error
count_calls(b, countOk) ==
    <<Call("rs2_embedded_frames_count", b, "count")>>
        \o (IF countOk THEN <<>>
            ELSE <<Call("rs2_free_error", <<>>, "count")>>)

\* a loop that stops at the first element whose extraction fails
RECURSIVE frames_of_type_AbortOnError(_, _, _, _, _)
frames_of_type_AbortOnError(b, i, n, outs, kindAny) ==
    IF i >= n
    THEN <<>>
    ELSE IF outs[i + 1] = "extract_err"
         THEN <<ExtractStep(b, i, outs[i + 1], kindAny)>>
                  \o [j \in 1..(n - i - 1) |-> [push |-> FALSE, calls |-> <<>>]]
         ELSE <<ExtractStep(b, i, outs[i + 1], kindAny)>>
                  \o frames_of_type_AbortOnError(b, i + 1, n, outs, kindAny)

\* CompositeFrame::frames_of_type: the steps for the indexes i..n-1, in order
RECURSIVE frames_of_type(_, _, _, _, _)
frames_of_type(b, i, n, outs, kindAny) ==
    IF i >= n
    THEN <<>>
    ELSE <<ExtractStep(b, i, outs[i + 1], kindAny)>>
             \o frames_of_type(b, i + 1, n, outs, kindAny)

\* all the foreign calls of a sequence of steps, in order
RECURSIVE AllCalls(_)
AllCalls(steps) ==
    IF steps = <<>> THEN <<>> ELSE Head(steps).calls \o AllCalls(Tail(steps))

\* the number of calls of `calls` naming function fn on handle h
CountCalls(calls, fn, h) ==
    Cardinality({j \in 1..Len(calls) : calls[j].fn = fn /\ calls[j].arg = h})

\* the handles whose extraction from bundle b succeeded: one reference each
Extracted(outs, b) ==
    {ElemHandle(b, j - 1) : j \in {k \in 1..Len(outs) : outs[k] # "extract_err"}}

\* the handles of the steps that pushed
PushedHandles(steps, b) ==
    {ElemHandle(b, j - 1) : j \in {k \in 1..Len(steps) : steps[k].push}}

\* a loop that puts each new element at the front of the Vec
RECURSIVE PushedVec_Front(_, _, _)
PushedVec_Front(steps, b, i) ==
    IF steps = <<>> THEN <<>>
    ELSE PushedVec_Front(Tail(steps), b, i + 1)
             \o (IF Head(steps).push THEN <<ElemHandle(b, i)>> ELSE <<>>)

\* the Vec frames_of_type returns, as the handles its elements hold:
\* frames.push(f) in the order of the loop, steps being those of the
\* indexes i, i+1, ...
RECURSIVE PushedVec(_, _, _)
PushedVec(steps, b, i) ==
    IF steps = <<>> THEN <<>>
    ELSE (IF Head(steps).push THEN <<ElemHandle(b, i)>> ELSE <<>>)
             \o PushedVec(Tail(steps), b, i + 1)

\* f with d added at every key of S
RECURSIVE Adjust(_, _, _)
Adjust(f, S, d) ==
    IF S = {} THEN f
    ELSE LET x == CHOOSE y \in S : TRUE
         IN  Adjust([f EXCEPT ![x] = @ + d], S \ {x}, d)

\* the reference counts f after the foreign calls `calls`: each
\* rs2_release_frame gives one reference back
RECURSIVE AfterCalls(_, _)
AfterCalls(f, calls) ==
    IF calls = <<>> THEN f
    ELSE AfterCalls(IF Head(calls).fn = "rs2_release_frame"
                    THEN [f EXCEPT ![Head(calls).arg] = @ - 1]
                    ELSE f,
                    Tail(calls))

\* the reference counts after foreign calls `calls`, references to the
\* handles of `acquired` received and those of `given` handed over
HeldAfter(calls, acquired, given) ==
    AfterCalls(Adjust(Adjust(held, acquired, 1), given, -1), calls)

\* the live wrappers with `more` keys added (one each) and `less` removed
LiveAfter(more, less) == Adjust(Adjust(live, more, 1), less, -1)

\* the references held on the elements 0..i of bundle <<k>>
RECURSIVE HeldElems(_, _)
HeldElems(k, i) ==
    IF i < 0 THEN 0 ELSE held[<<k, i>>] + HeldElems(k, i - 1)

\* the references held on the top-level frames 1..k and their elements
RECURSIVE HeldFrames(_)
HeldFrames(k) ==
    IF k = 0 THEN 0
    ELSE held[<<k>>] + HeldElems(k, frames[k].nelems - 1) + HeldFrames(k - 1)

\* the references this layer is responsible for, over all handles
TotalHeld == HeldFrames(Len(frames))

OutcomeSeqs(n) == [1..n -> ElemOutcomes]

\* the fields every entry of the operation log has: the foreign calls made,
\* the result, the foreign error left in the slot (None or Some(message)),
\* the wrapper that was consumed or destroyed, the wrapper that was returned
OpLog(name, calls, res, err, dead, made) ==
    [ name |-> name, calls |-> calls, res |-> res, err |-> err,
      dead |-> dead, made |-> made ]

----------------------------------------------------------------------------
(* Actions on frames *)

\* a capture step hands a bundle to this layer, which wraps it:
\* CompositeFrame::from(handle)
Capture ==
    /\ ~panicked
    /\ Len(frames) < MaxFrames
    /\ TotalHeld < MaxRefs
    /\ \E n \in {MaxBundle} :
         LET b == <<Len(frames) + 1>>
         IN  /\ frames' = Append(frames, [nelems |-> n])
             /\ live' = LiveAfter({<<"Composite", b>>}, {})
             /\ held' = HeldAfter(<<>>, {b}, {})
             /\ op' = OpLog("capture", <<>>, OkResult, None, None,
                            Some(NewWrapper("Composite", b)))
    /\ UNCHANGED <<raws, blockVars, errVars>>
    /\ UNCHANGED extVars

\* composite.frames_of_type::<F>() on the composite wrapper of bundle b,
\* with F of category cat, under the foreign outcomes countOk and outs
FramesOfTypeWith(b, cat, countOk, outs) ==
    LET n     == count(frames[b[1]].nelems, countOk)
        steps == frames_of_type(b, 0, n, outs, KindIsAny(cat))
        calls == count_calls(b, countOk) \o AllCalls(steps)
        vec   == PushedHandles(steps, b)
    IN  /\ TotalHeld + Cardinality(vec) <= MaxRefs
        /\ live' = LiveAfter({<<cat, h>> : h \in vec}, {})
        /\ held' = HeldAfter(calls, Extracted(outs, b), {})
        /\ op' = [ name |-> "frames_of_type", calls |-> calls,
                   res |-> OkResult, err |-> None, dead |-> None,
                   made |-> None, b |-> b, cat |-> cat, countOk |-> countOk,
                   outs |-> outs, pushed |-> [j \in 1..n |-> steps[j].push],
                   vec |-> PushedVec(steps, b, 0) ]
        /\ UNCHANGED <<frames, raws, blockVars, errVars>>

\* the outcomes that decide which wrappers exist after an extraction pass:
\* every other outcome leaves the element unheld, as "not_ext" does
PushOutcomes == {"not_ext", "ok"}

\* the category the pipeline extracts: the input of Spatial and Threshold
PipelineCats == {"Depth"}

\* an extraction pass on any live composite frame
FramesOfType ==
    /\ ~panicked
    /\ \E b \in TopHandles, cat \in PipelineCats, countOk \in BOOLEAN :
         /\ live[<<"Composite", b>>] > 0
         /\ \E outs \in [1..count(frames[b[1]].nelems, countOk) -> PushOutcomes] :
              FramesOfTypeWith(b, cat, countOk, outs)
    /\ UNCHANGED extVars

\* the first extraction pass on a freshly captured bundle, under every
\* outcome the foreign runtime can give for each element
ExtractFresh ==
    /\ ~panicked
    /\ op.name = "capture"
    /\ \E cat \in FrameCats, countOk \in BOOLEAN :
         LET b == op.made[1].h
         IN  \E outs \in OutcomeSeqs(count(frames[b[1]].nelems, countOk)) :
               FramesOfTypeWith(b, cat, countOk, outs)
    /\ UNCHANGED extVars

\* a frame wrapper goes out of scope
DropFrame ==
    /\ ~panicked
    /\ \E k \in WrapperKeys :
         /\ live[k] > 0
         /\ LET d == Frame_drop(NewWrapper(k[1], k[2]))
            IN  /\ live' = LiveAfter({}, {k})
                /\ held' = HeldAfter(d.calls, {}, {})
                /\ op' = OpLog("drop", d.calls, OkResult, None, Some(d.w), None)
    /\ UNCHANGED <<frames, raws, blockVars, errVars>>
    /\ UNCHANGED extVars

\* unsafe { composite.get_owned_raw() } by the caller, who keeps the raw
\* handle: `self` is consumed and its destructor runs on the emptied slot
GetOwnedRaw ==
    /\ ~panicked
    /\ \E b \in TopHandles :
         /\ live[<<"Composite", b>>] > 0
         /\ LET g == get_owned_raw(NewWrapper("Composite", b))
                d == Frame_drop(g.w)
            IN  /\ live' = LiveAfter({}, {<<"Composite", b>>})
                /\ held' = HeldAfter(d.calls, {}, {})
                /\ raws' = [raws EXCEPT ![g.raw] = @ + 1]
                /\ op' = OpLog("get_owned_raw", d.calls, OkResult, None,
                               Some(d.w), None)
    /\ UNCHANGED <<frames, blockVars, errVars>>
    /\ UNCHANGED extVars

\* a conversion that leaves the handle out of the wrapper it builds
CompositeFrame_from_EmptySlot(h) ==
    [NewWrapper("Composite", h) EXCEPT !.slot = None]

\* impl From<NonNull<sys::rs2_frame>> for CompositeFrame
CompositeFrame_from(h) == NewWrapper("Composite", h)

\* the keys of the live wrapper values that hold a handle in wrapper w
KeysOf(w) == IF w.slot # None THEN {<<w.cat, w.slot[1]>>} ELSE {}

\* what the foreign runtime and stream::Profile::new can answer within
\* PoseFrame::try_from: the stream profile query fails, Profile::new fails,
\* the pose data query fails, or all succeed
PoseOutcomes == {"profile_err", "profile_new_err", "data_err", "ok"}

\* a conversion that queries the pose data first, whatever happens
PoseCalls_DataFirst(h, o) ==
    << Call("rs2_pose_frame_get_pose_data", h, "try_from"),
       Call("rs2_get_frame_stream_profile", h, "try_from") >>

\* the foreign calls PoseFrame::try_from makes on the handle under outcome o
PoseCalls(h, o) ==
    <<Call("rs2_get_frame_stream_profile", h, "try_from")>>
        \o (IF o \in {"data_err", "ok"}
            THEN <<Call("rs2_pose_frame_get_pose_data", h, "try_from")>>
            ELSE <<>>)

\* check_rs2_error!(err, variant) after a query that left an error
QueryFailed(variant) ==
    check_rs2_error(<<[msg |-> NotInTime, frees |-> 0]>>, 1, variant)

\* a conversion that releases the handle when it fails
PoseFrame_try_from_ReleaseOnFail(h, o) ==
    [ calls |-> PoseCalls(h, o)
                  \o (IF o = "ok" THEN <<>>
                      ELSE <<Call("rs2_release_frame", h, "try_from")>>),
      res   |-> IF o = "ok" THEN OkResult
                ELSE QueryFailed("CouldNotGetData"),
      made  |-> IF o = "ok" THEN Some(NewWrapper("Pose", h)) ELSE None ]

\* impl TryFrom<NonNull<sys::rs2_frame>> for PoseFrame: the foreign calls,
\* the Result and the wrapper built
PoseFrame_try_from(h, o) ==
    [ calls |-> PoseCalls(h, o),
      res   |-> CASE o = "profile_err" ->
                       QueryFailed("CouldNotGetFrameStreamProfile")
                  [] o = "profile_new_err" ->
                       [ tag |-> "Err", variant |-> "ProfileError",
                         ptr |-> NULL, context |-> <<>> ]
                  [] o = "data_err" ->
                       QueryFailed("CouldNotGetData")
                  [] OTHER -> OkResult,
      made  |-> IF o = "ok" THEN Some(NewWrapper("Pose", h)) ELSE None ]

\* CompositeFrame::is_empty: self.count() == 0
is_empty(n, countOk) == count(n, countOk) = 0

\* a keep that gives the bundle's reference back
CompositeFrame_keep_Releases(w) ==
    [ w     |-> w,
      calls |-> IF w.slot # None
                THEN << Call("rs2_keep_frame", w.slot[1], "keep"),
                        Call("rs2_release_frame", w.slot[1], "keep") >>
                ELSE <<>> ]

\* CompositeFrame::keep(&self): the wrapper afterwards and the foreign calls
CompositeFrame_keep(w) ==
    [ w     |-> w,
      calls |-> IF w.slot # None
                THEN <<Call("rs2_keep_frame", w.slot[1], "keep")>>
                ELSE <<>> ]

\* the log entry of count(), is_empty() and keep() on the composite
\* wrapper of bundle b
SelfLog(name, b, calls, countOk, ret) ==
    [ name |-> name, calls |-> calls, res |-> OkResult, err |-> None,
      dead |-> None, made |-> None, b |-> b, countOk |-> countOk,
      ret |-> ret ]

\* composite.count()
Count ==
    /\ ~panicked
    /\ \E b \in TopHandles, countOk \in BOOLEAN :
         /\ live[<<"Composite", b>>] > 0
         /\ op' = SelfLog("count", b, count_calls(b, countOk), countOk,
                          count(frames[b[1]].nelems, countOk))
    /\ UNCHANGED <<frameVars, blockVars, errVars>>
    /\ UNCHANGED extVars

\* composite.is_empty()
IsEmpty ==
    /\ ~panicked
    /\ \E b \in TopHandles, countOk \in BOOLEAN :
         /\ live[<<"Composite", b>>] > 0
         /\ op' = SelfLog("is_empty", b, count_calls(b, countOk), countOk,
                          is_empty(frames[b[1]].nelems, countOk))
    /\ UNCHANGED <<frameVars, blockVars, errVars>>
    /\ UNCHANGED extVars

\* composite.keep()
Keep ==
    /\ ~panicked
    /\ \E b \in TopHandles :
         /\ live[<<"Composite", b>>] > 0
         /\ LET k == CompositeFrame_keep(NewWrapper("Composite", b))
            IN  /\ live' = LiveAfter(KeysOf(k.w), {<<"Composite", b>>})
                /\ held' = HeldAfter(k.calls, {}, {})
                /\ op' = SelfLog("keep", b, k.calls, TRUE, 0)
    /\ UNCHANGED <<frames, raws, blockVars, errVars>>
    /\ UNCHANGED extVars

\* CompositeFrame::from(raw) by the caller on a raw handle taken earlier
\* with get_owned_raw
FromRaw ==
    /\ ~panicked
    /\ \E h \in TopHandles :
         /\ raws[h] > 0
         /\ xfers[h] < MaxXfers
         /\ LET w == CompositeFrame_from(h)
            IN  /\ raws' = [raws EXCEPT ![h] = @ - 1]
                /\ live' = LiveAfter(KeysOf(w), {})
                /\ xfers' = [xfers EXCEPT ![h] = @ + 1]
                /\ op' = OpLog("from_raw", <<>>, OkResult, None, None, Some(w))
    /\ UNCHANGED <<frames, held, blockVars, errVars, pbs, qs, blocks, opt,
                   logger, dl>>

\* PoseFrame::try_from(raw) by the caller on a raw handle: on success the
\* wrapper owns the handle, on failure the caller still has the raw handle
TryFromPose ==
    /\ ~panicked
    /\ \E h \in TopHandles, o \in PoseOutcomes :
         /\ raws[h] > 0
         /\ LET t == PoseFrame_try_from(h, o)
            IN  /\ raws' = IF t.made # None
                           THEN [raws EXCEPT ![h] = @ - 1] ELSE raws
                /\ live' = IF t.made # None
                           THEN LiveAfter(KeysOf(t.made[1]), {}) ELSE live
                /\ held' = HeldAfter(t.calls, {}, {})
                /\ op' = [ name |-> "try_from", calls |-> t.calls,
                           res |-> t.res,
                           err |-> IF o \in {"profile_err", "data_err"}
                                   THEN Some(NotInTime) ELSE None,
                           dead |-> None, made |-> t.made, outcome |-> o ]
    /\ UNCHANGED <<frames, blockVars, errVars>>
    /\ UNCHANGED extVars

(***************************************************************************)
(* processing_blocks/align.rs, spatial.rs, threshold.rs                    *)
(***************************************************************************)

BlockKinds == {"Align", "Spatial", "Threshold"}

\* the category of the frame queue() takes and of the frame wait() and
\* poll() return: CompositeFrame for Align, DepthFrame for the others
InputCat(kind) == IF kind = "Align" THEN "Composite" ELSE "Depth"

\* the messages the foreign runtime leaves when no frame arrives in time
BlockMessages == {TimeoutPrefix \o <<"5", "0">>, NotInTime}

\* the foreign error slot after a call: null (None) or an error resource
\* carrying a message (Some(message))
ErrSlots == {None, Some(NotInTime)}

\* a translation that classifies the message by its prefix, as
\* ErrorChecker::check does
Translate_Classified(slot, variant) ==
    IF slot = None
    THEN OkResult
    ELSE [ tag |-> "Err",
           variant |-> IF starts_with(slot[1], TimeoutPrefix)
                       THEN "Timeout" ELSE "Other",
           ptr |-> NULL, context |-> slot[1] ]

\* check_rs2_error!(err, variant) on the slot a foreign call left
Translate(slot, variant) ==
    IF slot = None
    THEN check_rs2_error(<<>>, NULL, variant)
    ELSE check_rs2_error(<<[msg |-> slot[1], frees |-> 0]>>, 1, variant)

\* the foreign create call of each block
CreateCall(kind) ==
    CASE kind = "Align"     -> "rs2_create_align"
      [] kind = "Spatial"   -> "rs2_create_spatial_filter_block"
      [] kind = "Threshold" -> "rs2_create_threshold"

\* the three steps of a constructor, in order: the foreign call and the
\* variant check_rs2_error! is given after it
ConstructorSteps(kind) ==
    << [fn |-> CreateCall(kind), variant |-> "CouldNotCreateProcessingBlock"],
       [fn |-> "rs2_create_frame_queue",
        variant |-> "CouldNotCreateProcessingQueue"],
       [fn |-> "rs2_start_processing_queue",
        variant |-> "CouldNotStartProcessingQueue"] >>

\* a constructor that goes on to the later steps after a step has failed
Block_new_Continue(kind, fail, slot) ==
    LET steps == ConstructorSteps(kind)
    IN  [ calls |-> [j \in 1..Len(steps) |-> Call(steps[j].fn, <<>>, "new")],
          res   |-> IF fail = 0 THEN OkResult
                    ELSE Translate(slot, steps[fail].variant) ]

\* a constructor that deletes what it created when a later step fails
Block_new_Cleanup(kind, fail, slot) ==
    LET steps == ConstructorSteps(kind)
        last  == IF fail = 0 THEN Len(steps) ELSE fail
    IN  [ calls |-> [j \in 1..last |-> Call(steps[j].fn, <<>>, "new")]
                      \o (IF fail = 3
                          THEN <<Call("rs2_delete_frame_queue", <<>>, "new")>>
                          ELSE <<>>)
                      \o (IF fail \in {2, 3}
                          THEN <<Call("rs2_delete_processing_block", <<>>,
                                      "new")>>
                          ELSE <<>>),
          res   |-> IF fail = 0 THEN OkResult
                    ELSE Translate(slot, steps[fail].variant) ]

\* a constructor that never starts the queue against the stage
Block_new_NoStart(kind, fail, slot) ==
    LET steps == ConstructorSteps(kind)
        last  == IF fail = 0 \/ fail = 3 THEN 2 ELSE fail
    IN  [ calls |-> [j \in 1..last |-> Call(steps[j].fn, <<>>, "new")],
          res   |-> IF fail = 0 \/ fail = 3 THEN OkResult
                    ELSE Translate(slot, steps[fail].variant) ]

\* Align::new, Spatial::new, Threshold::new when the foreign call of step
\* `fail` leaves error `slot` (fail = 0: no step fails): the foreign calls
\* made, up to the first `?` that returns, and the Result
Block_new(kind, fail, slot) ==
    LET steps == ConstructorSteps(kind)
        last  == IF fail = 0 THEN Len(steps) ELSE fail
    IN  [ calls |-> [j \in 1..last |-> Call(steps[j].fn, <<>>, "new")],
          res   |-> IF fail = 0 THEN OkResult
                    ELSE Translate(slot, steps[fail].variant) ]

\* a layer in which poll, too, waits for a frame
DequeueCall_PollWaits(name) == Call("rs2_wait_for_frame", <<>>, name)

\* the one foreign call of wait() and of poll() on the output queue
DequeueCall(name) ==
    Call(IF name = "wait" THEN "rs2_wait_for_frame" ELSE "rs2_poll_for_frame",
         <<>>, name)

\* the wrapper wait() and poll() build from a dequeued handle:
\* CompositeFrame::from for Align, DepthFrame::try_from for the others,
\* which fails when conv is FALSE
Block_wrap(kind, h, conv) ==
    IF kind = "Align" \/ conv THEN Some(NewWrapper(InputCat(kind), h)) ELSE None

----------------------------------------------------------------------------
(* Actions on processing blocks *)

\* Align::new / Spatial::new / Threshold::new(processing_queue_size)
NewBlock ==
    /\ ~panicked
    /\ block.st = "none"
    /\ \E kind \in BlockKinds, size \in {MaxQueue}, fail \in 0..3,
          slot \in ErrSlots :
         /\ (fail = 0) <=> (slot = None)
         /\ LET n == Block_new(kind, fail, slot)
            IN  /\ block' = IF n.res.tag = "Ok"
                            THEN [st |-> "live", kind |-> kind, cap |-> size]
                            ELSE block
                /\ op' = OpLog("new", n.calls, n.res, slot, None, None)
    /\ UNCHANGED <<stage, fq, fed, frameVars, errVars>>
    /\ UNCHANGED extVars

\* block.queue(frame): frame.get_owned_raw() consumes the wrapper, whose
\* destructor runs on the emptied slot; then rs2_process_frame, which
\* leaves error `slot`; the foreign stage has the reference from then on
Queue ==
    /\ ~panicked
    /\ block.st = "live"
    /\ stage + Len(fq) < block.cap
    /\ \E k \in WrapperKeys, slot \in ErrSlots :
         LET cat   == k[1]
             h     == k[2]
             g     == IF cat = "Composite"
                      THEN get_owned_raw(NewWrapper(cat, h))
                      ELSE DepthFrame_get_owned_raw(NewWrapper(cat, h))
             d     == Frame_drop(g.w)
             calls == d.calls \o <<Call("rs2_process_frame", g.raw, "queue")>>
         IN  /\ cat = InputCat(block.kind)
             /\ live[k] > 0
             /\ live' = LiveAfter({}, {k})
             /\ held' = HeldAfter(calls, {}, {h})
             /\ stage' = IF slot = None THEN stage + 1 ELSE stage
             /\ fed' = TRUE
             /\ op' = OpLog("queue", calls, Translate(slot, "ProcessFrameError"),
                            slot, Some(d.w), None)
    /\ UNCHANGED <<frames, raws, block, fq, errVars>>
    /\ UNCHANGED extVars

\* the foreign stage finishes one accepted frame and deposits its output, a
\* new frame (a bundle of n elements for Align), into the output queue
Deposit ==
    /\ ~panicked
    /\ block.st = "live"
    /\ stage > 0
    /\ Len(fq) < block.cap
    /\ Len(frames) < MaxFrames
    /\ \E n \in {0, MaxBundle} :
         /\ (block.kind # "Align") <=> n = 0
         /\ frames' = Append(frames, [nelems |-> n])
    /\ fq' = Append(fq, <<Len(frames) + 1>>)
    /\ stage' = stage - 1
    /\ UNCHANGED <<held, raws, live, block, fed, op, errVars>>
    /\ UNCHANGED extVars

\* what wait() and poll() do with the handle h the foreign queue gave them,
\* when the conversion to the output category succeeds (conv) or fails;
\* `unwraps` tells whether the conversion's Result is unwrapped
Receive(name, call, h, conv, unwraps) ==
    LET made == Block_wrap(block.kind, h, conv)
    IN  /\ fq' = Tail(fq)
        /\ held' = HeldAfter(<<>>, {h}, {})
        /\ live' = IF made = None THEN live
                   ELSE LiveAfter({<<made[1].cat, h>>}, {})
        /\ panicked' = (made = None /\ unwraps)
        /\ op' = [ name |-> name, calls |-> <<call>>, res |-> OkResult,
                   err |-> None, dead |-> None, made |-> made,
                   before |-> fq, after |-> Tail(fq), fed |-> fed,
                   poll |-> IF made = None /\ unwraps THEN "-" ELSE "Ready",
                   inner |-> IF made = None THEN "Err" ELSE "Ok" ]

\* what wait() and poll() do when they hand no frame over: the foreign call
\* left error `slot`, or poll's is_ready was 0
NoFrame(name, call, slot, poll) ==
    /\ op' = [ name |-> name, calls |-> <<call>>,
               res |-> Translate(slot, "ProcessFrameError"),
               err |-> slot, dead |-> None, made |-> None,
               before |-> fq, after |-> fq, fed |-> fed, poll |-> poll,
               inner |-> "-" ]
    /\ UNCHANGED <<fq, held, live, panicked>>

\* block.wait(timeout): rs2_wait_for_frame gives the head of the queue, or
\* leaves an error when the queue stays empty until the timeout (or fails)
Wait ==
    /\ ~panicked
    /\ block.st = "live"
    /\ LET call == DequeueCall("wait")
       IN  \/ \E m \in BlockMessages : NoFrame("wait", call, Some(m), "-")
           \/ /\ fq # <<>>
              /\ TotalHeld < MaxRefs
              /\ \E conv \in BOOLEAN :
                   Receive("wait", call, Head(fq), conv, TRUE)
    /\ UNCHANGED <<frames, raws, block, stage, fed, eres, checker, evals, eop>>
    /\ UNCHANGED extVars

\* block.poll(): rs2_poll_for_frame leaves an error, or returns 0 on an
\* empty queue, or gives the head of the queue
Poll ==
    /\ ~panicked
    /\ block.st = "live"
    /\ LET call == DequeueCall("poll")
       IN  \/ \E slot \in ErrSlots \ {None} : NoFrame("poll", call, slot, "-")
           \/ /\ fq = <<>>
              /\ NoFrame("poll", call, None, "Pending")
           \/ /\ fq # <<>>
              /\ TotalHeld < MaxRefs
              /\ \E conv \in BOOLEAN :
                   Receive("poll", call, Head(fq), conv,
                           block.kind # "Spatial")
    /\ UNCHANGED <<frames, raws, block, stage, fed, eres, checker, evals, eop>>
    /\ UNCHANGED extVars

\* the block goes out of scope: impl Drop deletes the queue, then the block
DropBlock ==
    /\ ~panicked
    /\ block.st = "live"
    /\ block' = [st |-> "dropped", kind |-> "-", cap |-> 0]
    /\ stage' = 0
    /\ fq' = <<>>
    /\ op' = OpLog("drop_block",
                   << Call("rs2_delete_frame_queue", <<>>, "drop"),
                      Call("rs2_delete_processing_block", <<>>, "drop") >>,
                   OkResult, None, None, None)
    /\ UNCHANGED <<fed, frameVars, errVars>>
    /\ UNCHANGED extVars

(***************************************************************************)
(* processing_blocks/spatial.rs: options                                   *)
(***************************************************************************)

\* how a foreign option call ends: it answers ("ok") or leaves an error
QueryOutcomes == {"ok", "err"}

\* the message the foreign runtime leaves when an option call fails
OptionMessage == UnsupportedOptionPrefix \o <<"1", "2">>

\* a foreign query `fn` made by `by` that ends with outcome q: the call, and
\* the rs2_free_error this layer issues when the query left an error
QueryCalls(fn, by, q) ==
    <<Call(fn, <<>>, by)>>
        \o (IF q = "err" THEN <<Call("rs2_free_error", <<>>, by)>> ELSE <<>>)

\* a supports_option that takes a failed query for "supported"
Spatial_supports_option_ErrIsTrue(o, q) ==
    [ calls |-> QueryCalls("rs2_supports_option", "supports_option", q),
      ret   |-> IF q = "ok" THEN o.supported ELSE TRUE ]

\* Spatial::supports_option on option o when rs2_supports_option ends with
\* q: val != 0 when err is null, false otherwise
Spatial_supports_option(o, q) ==
    [ calls |-> QueryCalls("rs2_supports_option", "supports_option", q),
      ret   |-> IF q = "ok" THEN o.supported ELSE FALSE ]

\* an is_option_read_only that does what its doc comment says: true when
\* the option is supported and can be mutated
Spatial_is_option_read_only_AsDocumented(o, q1, q2) ==
    LET s == Spatial_supports_option(o, q1)
    IN  IF ~s.ret
        THEN [calls |-> s.calls, ret |-> FALSE]
        ELSE [ calls |-> s.calls \o QueryCalls("rs2_is_option_read_only",
                                               "is_option_read_only", q2),
               ret   |-> IF q2 = "ok" THEN ~o.readonly ELSE FALSE ]

\* Spatial::is_option_read_only on option o when its support query ends
\* with q1 and rs2_is_option_read_only with q2
Spatial_is_option_read_only(o, q1, q2) ==
    LET s == Spatial_supports_option(o, q1)
    IN  IF ~s.ret
        THEN [calls |-> s.calls, ret |-> FALSE]
        ELSE [ calls |-> s.calls \o QueryCalls("rs2_is_option_read_only",
                                               "is_option_read_only", q2),
               ret   |-> IF q2 = "ok" THEN o.readonly ELSE FALSE ]

\* OptionSetError::OptionNotSupported, OptionSetError::OptionIsReadOnly
OptionErr(variant) ==
    [tag |-> "Err", variant |-> variant, ptr |-> NULL, context |-> <<>>]

\* the foreign rs2_set_option(o, v) under outcome q: it stores v when the
\* option is supported and writable and nothing else fails, and leaves an
\* error otherwise
rs2_set_option(o, v, q) ==
    IF q = "ok" /\ o.supported /\ ~o.readonly
    THEN [opt |-> [o EXCEPT !.value = v], slot |-> None]
    ELSE [opt |-> o, slot |-> Some(OptionMessage)]

\* Spatial::set_option(option, v) when the foreign calls it makes end with
\* q[1] (support query), q[2], q[3] (the two queries of is_option_read_only)
\* and q[4] (rs2_set_option): the calls made, the Result, the option after
Spatial_set_option(o, v, q) ==
    LET s == Spatial_supports_option(o, q[1])
        r == Spatial_is_option_read_only(o, q[2], q[3])
        f == rs2_set_option(o, v, q[4])
    IN  IF ~s.ret
        THEN [ calls |-> s.calls, res |-> OptionErr("OptionNotSupported"),
               opt |-> o ]
        ELSE IF r.ret
        THEN [ calls |-> s.calls \o r.calls,
               res |-> OptionErr("OptionIsReadOnly"), opt |-> o ]
        ELSE [ calls |-> s.calls \o r.calls
                           \o <<Call("rs2_set_option", v, "set_option")>>,
               res |-> Translate(f.slot, "CouldNotSetOption"),
               opt |-> f.opt ]

----------------------------------------------------------------------------
(* Actions on the options of a Spatial block *)

\* spatial.supports_option(option)
SupportsOption ==
    \E q \in QueryOutcomes :
        LET s == Spatial_supports_option(opt, q)
        IN  /\ op' = [ name |-> "supports_option", calls |-> s.calls,
                       ret |-> s.ret, q |-> <<q>>, before |-> opt ]
            /\ UNCHANGED <<dl, logger, xfers, opt, pbs, qs, blocks, errVars, frameVars, blockVars>>

\* spatial.is_option_read_only(option)
IsOptionReadOnly ==
    \E q1 \in QueryOutcomes, q2 \in QueryOutcomes :
        LET r == Spatial_is_option_read_only(opt, q1, q2)
        IN  /\ op' = [ name |-> "is_option_read_only", calls |-> r.calls,
                       ret |-> r.ret, q |-> <<q1, q2>>, before |-> opt ]
            /\ UNCHANGED <<dl, logger, xfers, opt, pbs, qs, blocks, errVars, frameVars, blockVars>>

\* spatial.set_option(option, v)
SetOption ==
    \E v \in 1..MaxValue, q \in [1..4 -> QueryOutcomes] :
        LET r == Spatial_set_option(opt, v, q)
        IN  /\ opt' = r.opt
            /\ op' = [ name |-> "set_option", calls |-> r.calls,
                       res |-> r.res, q |-> q, v |-> v, before |-> opt ]
            /\ UNCHANGED <<dl, logger, xfers, pbs, qs, blocks, errVars, frameVars, blockVars>>

(***************************************************************************)
(* processing_blocks/*.rs: block values and their foreign resources        *)
(***************************************************************************)

\* whether the foreign call `fn` was made by a constructor and succeeded,
\* given the calls made and the step that failed (0: none); the calls are
\* made in the order of ConstructorSteps
CallSucceeded(kind, calls, fail, fn) ==
    \E j \in 1..Len(calls) :
        /\ calls[j].fn = fn
        /\ ConstructorSteps(kind)[j].fn = fn
        /\ j # fail

\* #[derive(Clone)] on Align, Spatial, Threshold: a copy of both pointers
Block_clone(b) == [b EXCEPT !.origin = "clone"]

\* a destructor that deletes the stage before the queue
Block_drop_StageFirst(b) ==
    << Call("rs2_delete_processing_block", b.pb, "drop"),
       Call("rs2_delete_frame_queue", b.q, "drop") >>

\* impl Drop for Align / Spatial / Threshold: the foreign calls, in order
Block_drop(b) ==
    << Call("rs2_delete_frame_queue", b.q, "drop"),
       Call("rs2_delete_processing_block", b.pb, "drop") >>

\* the foreign resources r after the delete calls of `calls` naming fn
RECURSIVE AfterDeletes(_, _, _)
AfterDeletes(r, calls, fn) ==
    IF calls = <<>> THEN r
    ELSE AfterDeletes(IF Head(calls).fn = fn
                      THEN [r EXCEPT ![Head(calls).arg].deletes = @ + 1]
                      ELSE r,
                      Tail(calls), fn)

----------------------------------------------------------------------------
(* Actions on block values *)

\* Align::new / Spatial::new / Threshold::new, with the foreign resources
\* its successful calls create: a stage, a queue, and the binding of the
\* queue to the stage
BlockNew ==
    /\ Len(blocks) < MaxBlocks
    /\ Len(pbs) < MaxBlocks
    /\ \E kind \in BlockKinds, fail \in 0..3, slot \in ErrSlots :
         /\ (fail = 0) <=> (slot = None)
         /\ LET n       == Block_new(kind, fail, slot)
                ok(fn)  == CallSucceeded(kind, n.calls, fail, fn)
                pb      == Len(pbs) + 1
                q       == Len(qs) + 1
                started == ok("rs2_start_processing_queue")
            IN  /\ pbs' = IF ok(CreateCall(kind))
                          THEN Append(pbs, [deletes |-> 0]) ELSE pbs
                /\ qs' = IF ok("rs2_create_frame_queue")
                         THEN Append(qs, [ deletes |-> 0,
                                           bound |-> IF started THEN pb
                                                     ELSE NULL ])
                         ELSE qs
                /\ blocks' = IF n.res.tag = "Ok"
                             THEN Append(blocks,
                                         [ st |-> "live", kind |-> kind,
                                           pb |-> pb, q |-> q,
                                           origin |-> "new" ])
                             ELSE blocks
                /\ op' = [ name |-> "new", calls |-> n.calls, res |-> n.res,
                           err |-> slot, kind |-> kind, fail |-> fail,
                           before |-> Len(blocks) ]
    /\ UNCHANGED <<dl, logger, xfers, opt, errVars, frameVars, blockVars>>

\* block.clone()
BlockClone ==
    /\ Len(blocks) < MaxBlocks
    /\ \E i \in 1..Len(blocks) :
         /\ blocks[i].st = "live"
         /\ blocks' = Append(blocks, Block_clone(blocks[i]))
         /\ op' = [ name |-> "clone", calls |-> <<>>, res |-> OkResult,
                    of |-> i ]
    /\ UNCHANGED <<dl, logger, xfers, pbs, qs, opt, errVars, frameVars, blockVars>>

\* a block value goes out of scope
BlockDrop ==
    /\ \E i \in 1..Len(blocks) :
         /\ blocks[i].st = "live"
         /\ LET calls == Block_drop(blocks[i])
            IN  /\ qs' = AfterDeletes(qs, calls, "rs2_delete_frame_queue")
                /\ pbs' = AfterDeletes(pbs, calls,
                                       "rs2_delete_processing_block")
                /\ blocks' = [blocks EXCEPT ![i].st = "dropped"]
                /\ op' = [ name |-> "drop_block", calls |-> calls,
                           res |-> OkResult, of |-> blocks[i] ]
    /\ UNCHANGED <<dl, logger, xfers, opt, errVars, frameVars, blockVars>>

(***************************************************************************)
(* logging.rs                                                              *)
(***************************************************************************)

\* the values of sys::rs2_log_severity (realsense-sys, generated from
\* librealsense's rs_types.h): the enumerators count up from DEBUG, and ALL
\* is declared equal to DEBUG
RS2_LOG_SEVERITY_DEBUG == 0
RS2_LOG_SEVERITY_INFO == 1
RS2_LOG_SEVERITY_WARN == 2
RS2_LOG_SEVERITY_ERROR == 3
RS2_LOG_SEVERITY_FATAL == 4
RS2_LOG_SEVERITY_NONE == 5
RS2_LOG_SEVERITY_ALL == RS2_LOG_SEVERITY_DEBUG

\* enum Rs2LogSeverity
Rs2LogSeverity == {"Debug", "Info", "Warn", "Error", "Fatal", "None", "All"}

\* the foreign severity values the runtime can hand to the callback
ForeignSeverities == 0..MaxSeverity

\* impl From<Rs2LogSeverity> for sys::rs2_log_severity
Severity_into(s) ==
    CASE s = "Debug" -> RS2_LOG_SEVERITY_DEBUG
      [] s = "Info"  -> RS2_LOG_SEVERITY_INFO
      [] s = "Warn"  -> RS2_LOG_SEVERITY_WARN
      [] s = "Error" -> RS2_LOG_SEVERITY_ERROR
      [] s = "Fatal" -> RS2_LOG_SEVERITY_FATAL
      [] s = "None"  -> RS2_LOG_SEVERITY_NONE
      [] s = "All"   -> RS2_LOG_SEVERITY_ALL

\* impl From<sys::rs2_log_severity> for Rs2LogSeverity: the arms of the
\* match in order, `_ => All` last
Severity_from(v) ==
    IF v = RS2_LOG_SEVERITY_DEBUG THEN "Debug"
    ELSE IF v = RS2_LOG_SEVERITY_INFO THEN "Info"
    ELSE IF v = RS2_LOG_SEVERITY_WARN THEN "Warn"
    ELSE IF v = RS2_LOG_SEVERITY_ERROR THEN "Error"
    ELSE IF v = RS2_LOG_SEVERITY_FATAL THEN "Fatal"
    ELSE IF v = RS2_LOG_SEVERITY_NONE THEN "None"
    ELSE "All"

\* a conversion to log::Level that takes All for Debug
Level_from_AllAsDebug(s) ==
    CASE s \in {"Debug", "All"} -> "Debug"
      [] s = "Info"  -> "Info"
      [] s = "Warn"  -> "Warn"
      [] s \in {"Error", "Fatal", "None"} -> "Error"

\* impl From<Rs2LogSeverity> for log::Level
Level_from(s) ==
    CASE s = "Debug" -> "Debug"
      [] s = "Info"  -> "Info"
      [] s = "Warn"  -> "Warn"
      [] s \in {"Error", "Fatal", "None"} -> "Error"
      [] s = "All"   -> "Trace"

\* enum log::Level
LogLevels == {"Error", "Warn", "Info", "Debug", "Trace"}

\* impl From<log::Level> for Rs2LogSeverity
Severity_from_Level(l) == IF l = "Trace" THEN "All" ELSE l

\* the inspection of the error slot: check_rs2_error!(err, variant)?
CheckSite(by) == Call("check_rs2_error!", <<>>, by)

\* whether each foreign call of a function left an error in the slot
LogOutcomes == {"ok", "err"}

\* the Result of check_rs2_error!(err, variant) on a slot that is null
\* (failed = FALSE) or holds an error
Checked(failed, variant) ==
    IF failed THEN QueryFailed(variant) ELSE OkResult

\* get_full_log_message under outcomes o of its three foreign calls: the
\* foreign calls and slot inspections in program order, the Result, and the
\* error resources whose pointer a later failing call overwrote in the slot
get_full_log_message(o) ==
    LET by    == "get_full_log_message"
        raw   == Call("rs2_get_raw_log_message", <<>>, by)
        file  == Call("rs2_get_log_message_filename", <<>>, by)
        line  == Call("rs2_get_log_message_line_number", <<>>, by)
        chk   == CheckSite(by)
        first == o[1] = "err" \/ o[2] = "err"
    IN  IF first
        THEN [ calls  |-> <<raw, file, chk>>,
               res    |-> Checked(TRUE, "GetFullLogMessageFailed"),
               leaked |-> IF o[1] = "err" /\ o[2] = "err" THEN 1 ELSE 0 ]
        ELSE [ calls  |-> <<raw, file, chk, line, chk>>,
               res    |-> Checked(o[3] = "err", "GetFullLogMessageFailed"),
               leaked |-> 0 ]

\* the level no sink was given yet
NoLevel == -1

\* log_to_console(min_severity) / log_to_callback(level): one foreign call
\* given the converted severity, then the inspection of the slot
SetSink(fn, variant, s, o) ==
    [ calls |-> <<Call(fn, Severity_into(s), fn), CheckSite(fn)>>,
      res   |-> Checked(o = "err", variant) ]

----------------------------------------------------------------------------
(* Actions of the logging functions *)

\* log_to_console(min_severity)
LogToConsole ==
    /\ \E s \in Rs2LogSeverity, o \in LogOutcomes :
         LET r == SetSink("rs2_log_to_console", "LogToConsoleFailed", s, o)
         IN  /\ logger' = IF o = "ok"
                          THEN [logger EXCEPT !.console = r.calls[1].arg]
                          ELSE logger
             /\ op' = [ name |-> "log_to_console", calls |-> r.calls,
                        res |-> r.res, severity |-> s ]
    /\ UNCHANGED <<dl, pbs, qs, blocks, opt, xfers, errVars, frameVars,
                   blockVars>>

\* inject_rs_log_to_rust(level): log_to_callback(level.into())
InjectRsLogToRust ==
    /\ \E l \in LogLevels, o \in LogOutcomes :
         LET s == Severity_from_Level(l)
             r == SetSink("rs2_log_to_callback", "LogToCallbackFailed", s, o)
         IN  /\ logger' = IF o = "ok"
                          THEN [logger EXCEPT !.callback = r.calls[1].arg]
                          ELSE logger
             /\ op' = [ name |-> "inject_rs_log_to_rust", calls |-> r.calls,
                        res |-> r.res, severity |-> s ]
    /\ UNCHANGED <<dl, pbs, qs, blocks, opt, xfers, errVars, frameVars,
                   blockVars>>

\* reset_logger()
ResetLogger ==
    /\ \E o \in LogOutcomes :
         /\ logger' = IF o = "ok"
                      THEN [console |-> NoLevel, callback |-> NoLevel]
                      ELSE logger
         /\ op' = [ name |-> "reset_logger",
                    calls |-> << Call("rs2_reset_logger", <<>>,
                                      "reset_logger"),
                                 CheckSite("reset_logger") >>,
                    res |-> Checked(o = "err", "ResetLoggerFailed") ]
    /\ UNCHANGED <<dl, pbs, qs, blocks, opt, xfers, errVars, frameVars,
                   blockVars>>

\* the foreign runtime calls the registered callback with a severity and a
\* message pointer, null or not: the message is read with
\* get_full_log_message and forwarded at the translated level, or an error
\* is logged when it cannot be read
Callback ==
    /\ logger.callback # NoLevel
    /\ \E v \in ForeignSeverities, null \in BOOLEAN,
          o \in [1..3 -> LogOutcomes] :
         LET g == get_full_log_message(o)
         IN  op' = IF null
                   THEN [ name |-> "callback", calls |-> <<>>,
                          res |-> OkResult, v |-> v, null |-> TRUE,
                          o |-> [j \in 1..3 |-> "ok"], leaked |-> 0,
                          forwarded |-> "-" ]
                   ELSE [ name |-> "callback", calls |-> g.calls,
                          res |-> g.res, v |-> v, null |-> FALSE, o |-> o,
                          leaked |-> g.leaked,
                          forwarded |-> IF g.res.tag = "Ok"
                                        THEN Level_from(Severity_from(v))
                                        ELSE "Error" ]
    /\ UNCHANGED <<dl, logger, pbs, qs, blocks, opt, xfers, errVars, frameVars,
                   blockVars>>

\* a severity is converted to the foreign enumeration and back
SeverityRoundTrip ==
    /\ \E s \in Rs2LogSeverity :
         op' = [ name |-> "severity_round_trip", calls |-> <<>>,
                 res |-> OkResult, severity |-> s,
                 foreign |-> Severity_into(s),
                 back |-> Severity_from(Severity_into(s)) ]
    /\ UNCHANGED <<dl, logger, pbs, qs, blocks, opt, xfers, errVars, frameVars,
                   blockVars>>

\* a foreign severity is converted to Rs2LogSeverity
SeverityFromForeign ==
    /\ \E v \in ForeignSeverities :
         op' = [ name |-> "severity_from", calls |-> <<>>, res |-> OkResult,
                 foreign |-> v, severity |-> Severity_from(v) ]
    /\ UNCHANGED <<dl, logger, pbs, qs, blocks, opt, xfers, errVars, frameVars,
                   blockVars>>

(***************************************************************************)
(* kind/distortion_model.rs                                                *)
(***************************************************************************)

\* the values of sys::rs2_distortion (realsense-sys, generated from
\* librealsense's rs_types.h)
RS2_DISTORTION_NONE == 0
RS2_DISTORTION_MODIFIED_BROWN_CONRADY == 1
RS2_DISTORTION_INVERSE_BROWN_CONRADY == 2
RS2_DISTORTION_FTHETA == 3
RS2_DISTORTION_BROWN_CONRADY == 4
RS2_DISTORTION_KANNALA_BRANDT4 == 5
RS2_DISTORTION_COUNT == 6

\* an enum without the KannalaBrandt variant
Rs2DistortionModel_NoKannala ==
    [ None                 |-> RS2_DISTORTION_NONE,
      BrownConrady         |-> RS2_DISTORTION_BROWN_CONRADY,
      BrownConradyModified |-> RS2_DISTORTION_MODIFIED_BROWN_CONRADY,
      BrownConradyInverse  |-> RS2_DISTORTION_INVERSE_BROWN_CONRADY,
      FThetaFisheye        |-> RS2_DISTORTION_FTHETA ]

\* #[repr(u32)] enum Rs2DistortionModel: each variant and its discriminant
Rs2DistortionModel ==
    [ None                 |-> RS2_DISTORTION_NONE,
      BrownConrady         |-> RS2_DISTORTION_BROWN_CONRADY,
      BrownConradyModified |-> RS2_DISTORTION_MODIFIED_BROWN_CONRADY,
      BrownConradyInverse  |-> RS2_DISTORTION_INVERSE_BROWN_CONRADY,
      FThetaFisheye        |-> RS2_DISTORTION_FTHETA,
      KannalaBrandt        |-> RS2_DISTORTION_KANNALA_BRANDT4 ]

\* #[derive(FromPrimitive)]: Rs2DistortionModel::from_u32(i), the variant
\* whose discriminant is i, if any
Rs2DistortionModel_from_u32(i) ==
    LET vs == {v \in DOMAIN Rs2DistortionModel : Rs2DistortionModel[v] = i}
    IN  IF vs = {} THEN None ELSE Some(CHOOSE v \in vs : TRUE)

\* #[derive(ToPrimitive)]: the discriminant of variant v
Rs2DistortionModel_to_u32(v) == Rs2DistortionModel[v]

\* Rs2DistortionModel::from_u32(i) on any ordinal the caller gives
DistortionFromU32 ==
    /\ \E i \in 0..MaxOrdinal :
         op' = [ name |-> "from_u32", calls |-> <<>>, res |-> OkResult,
                 i |-> i, ret |-> Rs2DistortionModel_from_u32(i) ]
    /\ UNCHANGED <<dl, logger, pbs, qs, blocks, opt, xfers, errVars, frameVars,
                   blockVars>>

(***************************************************************************)
(* device_list.rs                                                          *)
(***************************************************************************)

\* the longest device list tried
MaxDevices == 3

\* the most calls of next() on one iterator
MaxNexts == 5

\* no device list has been wrapped yet
NoDeviceList ==
    [ owner |-> "none", count |-> 0, index |-> 0, len |-> 0,
      fused |-> FALSE, deletes |-> 0, items |-> <<>> ]

\* DeviceList::from_raw(ptr): a DeviceList owning a foreign list of n devices
DeviceList_from_raw(n) == [NoDeviceList EXCEPT !.owner = "list", !.count = n]

\* impl Drop for DeviceList: rs2_delete_device_list(self.ptr)
DeviceList_drop(d) ==
    [ d     |-> [d EXCEPT !.owner = "gone", !.deletes = @ + 1],
      calls |-> <<Call("rs2_delete_device_list", <<>>, "drop")>> ]

\* impl Drop for DeviceListIntoIter: rs2_delete_device_list(self.ptr)
DeviceListIntoIter_drop(d) ==
    [ d     |-> [d EXCEPT !.owner = "gone", !.deletes = @ + 1],
      calls |-> <<Call("rs2_delete_device_list", <<>>, "drop")>> ]

\* an into_raw without mem::forget: self is dropped at the end of the call
into_raw_Dropping(d) ==
    [ d     |-> [DeviceList_drop(d).d EXCEPT !.owner = "raw"],
      calls |-> DeviceList_drop(d).calls ]

\* DeviceList::into_raw(self): mem::forget(self), the pointer goes out
into_raw(d) ==
    [ d     |-> [d EXCEPT !.owner = "raw"],
      calls |-> <<>> ]

\* DeviceList::len(&self): rs2_get_device_count and the check of the slot
DeviceList_len(d, ok) ==
    [ calls |-> <<Call("rs2_get_device_count", <<>>, "len")>>,
      res   |-> IF ok THEN OkResult ELSE QueryFailed("Other"),
      len   |-> IF ok THEN Some(d.count) ELSE None ]

\* DeviceList::try_into_iter(self): `self.len()?` returns early and self is
\* dropped; otherwise into_raw and the iterator is built around the pointer
DeviceList_try_into_iter(d, ok) ==
    LET l == DeviceList_len(d, ok)
    IN  IF l.len = None
        THEN [ d     |-> DeviceList_drop(d).d,
               calls |-> l.calls \o DeviceList_drop(d).calls,
               res   |-> l.res ]
        ELSE LET r == into_raw(d)
             IN  [ d     |-> [r.d EXCEPT !.owner = "iter", !.index = 0,
                                         !.len = l.len[1],
                                         !.fused = (l.len[1] = 0)],
                   calls |-> l.calls \o r.calls,
                   res   |-> OkResult ]

\* an item of the iterator: Ok(Device) for the device at an index, or Err
DeviceItem(tag, i) == [tag |-> tag, index |-> i]

\* a next() that does not fuse the iterator when device creation fails
DeviceListIntoIter_next_NoFuse(d, fail) ==
    IF d.fused
    THEN [ d |-> d, ret |-> None, calls |-> <<>> ]
    ELSE LET c == <<Call("rs2_create_device", d.index, "next")>>
         IN  IF fail
             THEN [ d |-> d, ret |-> Some(DeviceItem("Err", d.index)),
                    calls |-> c ]
             ELSE [ d     |-> [d EXCEPT !.index = @ + 1,
                                        !.fused = (d.index + 1 >= d.len)],
                    ret   |-> Some(DeviceItem("Ok", d.index)),
                    calls |-> c ]

\* impl Iterator for DeviceListIntoIter, next(&mut self): the iterator
\* afterwards, the Option returned and the foreign calls
DeviceListIntoIter_next(d, fail) ==
    IF d.fused
    THEN [ d |-> d, ret |-> None, calls |-> <<>> ]
    ELSE LET c == <<Call("rs2_create_device", d.index, "next")>>
         IN  IF fail
             THEN [ d     |-> [d EXCEPT !.fused = TRUE],
                    ret   |-> Some(DeviceItem("Err", d.index)),
                    calls |-> c ]
             ELSE [ d     |-> [d EXCEPT !.index = @ + 1,
                                        !.fused = (d.index + 1 >= d.len)],
                    ret   |-> Some(DeviceItem("Ok", d.index)),
                    calls |-> c ]

\* whether rs2_create_device can fail at an index: always beyond the list,
\* and for a device of the list when it cannot be opened
CreateFails(d) == IF d.index < d.count THEN BOOLEAN ELSE {TRUE}

\* a foreign device list is wrapped: DeviceList::from_raw
FromRawList ==
    /\ dl.owner = "none"
    /\ \E n \in 0..MaxDevices :
         /\ dl' = DeviceList_from_raw(n)
         /\ op' = [ name |-> "from_raw_list", calls |-> <<>>,
                    res |-> OkResult ]
    /\ UNCHANGED <<pbs, qs, blocks, opt, xfers, logger, errVars, frameVars,
                   blockVars>>

\* the DeviceList goes out of scope
DropList ==
    /\ dl.owner = "list"
    /\ LET r == DeviceList_drop(dl)
       IN  /\ dl' = r.d
           /\ op' = [ name |-> "drop_list", calls |-> r.calls,
                      res |-> OkResult ]
    /\ UNCHANGED <<pbs, qs, blocks, opt, xfers, logger, errVars, frameVars,
                   blockVars>>

\* list.into_raw()
ListIntoRaw ==
    /\ dl.owner = "list"
    /\ LET r == into_raw(dl)
       IN  /\ dl' = r.d
           /\ op' = [ name |-> "into_raw", calls |-> r.calls,
                      res |-> OkResult ]
    /\ UNCHANGED <<pbs, qs, blocks, opt, xfers, logger, errVars, frameVars,
                   blockVars>>

\* list.try_into_iter()
TryIntoIter ==
    /\ dl.owner = "list"
    /\ \E ok \in BOOLEAN :
         LET r == DeviceList_try_into_iter(dl, ok)
         IN  /\ dl' = r.d
             /\ op' = [ name |-> "try_into_iter", calls |-> r.calls,
                        res |-> r.res ]
    /\ UNCHANGED <<pbs, qs, blocks, opt, xfers, logger, errVars, frameVars,
                   blockVars>>

\* iter.next()
IterNext ==
    /\ dl.owner = "iter"
    /\ Len(dl.items) < MaxNexts
    /\ \E fail \in CreateFails(dl) :
         LET r == DeviceListIntoIter_next(dl, fail)
         IN  /\ dl' = [r.d EXCEPT !.items =
                           Append(@, [ret |-> r.ret, calls |-> r.calls])]
             /\ op' = [ name |-> "next", calls |-> r.calls,
                        res |-> OkResult ]
    /\ UNCHANGED <<pbs, qs, blocks, opt, xfers, logger, errVars, frameVars,
                   blockVars>>

\* the iterator goes out of scope
DropIter ==
    /\ dl.owner = "iter"
    /\ LET r == DeviceListIntoIter_drop(dl)
       IN  /\ dl' = r.d
           /\ op' = [ name |-> "drop_iter", calls |-> r.calls,
                      res |-> OkResult ]
    /\ UNCHANGED <<pbs, qs, blocks, opt, xfers, logger, errVars, frameVars,
                   blockVars>>

(***************************************************************************)
(* frame/pose.rs: the confidence accessors                                 *)
(***************************************************************************)

\* the largest confidence value a pose record is given
MaxConfidence == 4

\* the pose data of a frame, as far as the accessors read it
PoseData ==
    [ tracker_confidence : 0..MaxConfidence,
      mapper_confidence  : 0..MaxConfidence ]

\* the match of both accessors: 0x0 .. 0x3, and a panic for the rest
Confidence(v) ==
    CASE v = 0 -> "Failed"
      [] v = 1 -> "Low"
      [] v = 2 -> "Medium"
      [] v = 3 -> "High"
      [] OTHER -> "panic"

\* PoseFrame::tracker_confidence: match self.data.tracker_confidence
tracker_confidence(data) == Confidence(data.tracker_confidence)

\* PoseFrame::mapper_confidence: match self.data.tracker_confidence
mapper_confidence(data) == Confidence(data.tracker_confidence)

\* both accessors are called on a pose frame
ReadConfidence ==
    /\ \E data \in PoseData :
         op' = [ name |-> "confidence", calls |-> <<>>, res |-> OkResult,
                 data |-> data,
                 tracker |-> tracker_confidence(data),
                 mapper |-> mapper_confidence(data) ]
    /\ UNCHANGED <<dl, logger, pbs, qs, blocks, opt, xfers, errVars,
                   frameVars, blockVars>>

(***************************************************************************)
(* logging.rs: log::Level and Rs2LogSeverity                               *)
(***************************************************************************)

\* a log::Level is converted to Rs2LogSeverity and back
LevelRoundTrip ==
    /\ \E l \in LogLevels :
         op' = [ name |-> "level_round_trip", calls |-> <<>>,
                 res |-> OkResult, level |-> l,
                 severity |-> Severity_from_Level(l),
                 back |-> Level_from(Severity_from_Level(l)) ]
    /\ UNCHANGED <<dl, logger, pbs, qs, blocks, opt, xfers, errVars,
                   frameVars, blockVars>>

\* an Rs2LogSeverity is converted to log::Level
SeverityToLevel ==
    /\ \E s \in Rs2LogSeverity :
         op' = [ name |-> "severity_to_level", calls |-> <<>>,
                 res |-> OkResult, severity |-> s, level |-> Level_from(s) ]
    /\ UNCHANGED <<dl, logger, pbs, qs, blocks, opt, xfers, errVars,
                   frameVars, blockVars>>

(***************************************************************************)
(* wait(timeout): the timeout handed to the foreign call                   *)
(***************************************************************************)

\* numbers beyond 32 bits are kept as two limbs: value = hi * Limb + lo
Limb == 65536

\* the millisecond counts tried: around 0, around 2^32 - 1, and beyond
SampleHi == {0, 1, 2, Limb - 2, Limb - 1, Limb, Limb + 1, Limb + 2}
SampleLo == {0, 1, Limb - 1}

\* the part of a Duration below one millisecond, in nanoseconds
SampleSub == {0, 1, 999999}

\* the Durations wait is given: whole milliseconds and the rest
Durations ==
    [millis : [hi : SampleHi, lo : SampleLo], sub : SampleSub]

\* Duration::as_millis: the whole milliseconds, as a u128
as_millis(d) == d.millis

\* u32::try_from(x) for a u128 x: Err when x does not fit in 32 bits
u32_try_from(x) == IF x.hi < Limb THEN Some(x) ELSE None

\* u32::MAX
u32_MAX == [hi |-> Limb - 1, lo |-> Limb - 1]

\* a conversion that keeps the low 32 bits, as `as u32` does
timeout_millis_Wrapping(d) ==
    [hi |-> as_millis(d).hi % Limb, lo |-> as_millis(d).lo]

\* let timeout_millis = u32::try_from(timeout.as_millis()).unwrap_or(u32::MAX)
timeout_millis(d) ==
    LET r == u32_try_from(as_millis(d))
    IN  IF r = None THEN u32_MAX ELSE r[1]

\* block.wait(timeout), up to the foreign call: the timeout it is given
WaitArgument ==
    /\ \E kind \in BlockKinds, d \in Durations :
         op' = [ name |-> "wait_timeout", kind |-> kind, timeout |-> d,
                 calls |-> <<Call("rs2_wait_for_frame", timeout_millis(d),
                                  "wait")>>,
                 res |-> OkResult ]
    /\ UNCHANGED <<errVars, frameVars, blockVars>>
    /\ UNCHANGED extVars

InitFrames ==
    /\ frames = <<>>
    /\ held = [h \in AllHandles |-> 0]
    /\ raws = [h \in AllHandles |-> 0]
    /\ live = [k \in WrapperKeys |-> 0]
    /\ op = OpLog("init", <<>>, OkResult, None, None, None)

InitBlocks ==
    /\ block = [st |-> "none", kind |-> "-", cap |-> 0]
    /\ stage = 0
    /\ fq = <<>>
    /\ fed = FALSE

InitErr ==
    /\ eres = <<>>
    /\ checker = NoChecker
    /\ evals = <<>>
    /\ panicked = FALSE
    /\ eop = [name |-> "init", ptr |-> NULL, res |-> OkResult]

InitExt ==
    /\ pbs = <<>>
    /\ qs = <<>>
    /\ blocks = <<>>
    /\ opt = [supported |-> FALSE, readonly |-> FALSE, value |-> 0]
    /\ xfers = [h \in TopHandles |-> 0]
    /\ logger = [console |-> NoLevel, callback |-> NoLevel]
    /\ dl = NoDeviceList

Init == InitErr /\ InitFrames /\ InitBlocks /\ InitExt

NextErr ==
    \/ NewChecker
    \/ ForeignCall
    \/ Check
    \/ DropChecker
    \/ NewToCStrConversion
    \/ DropError
    \/ IntoRaw

SpecErr == Init /\ [][NextErr]_vars

\* a bundle of n elements was just captured and wrapped
InitExtract ==
    /\ InitErr
    /\ InitBlocks
    /\ InitExt
    /\ \E n \in 0..MaxElems :
         /\ frames = <<[nelems |-> n]>>
         /\ held = [h \in AllHandles |-> IF h = <<1>> THEN 1 ELSE 0]
         /\ raws = [h \in AllHandles |-> 0]
         /\ live = [k \in WrapperKeys |->
                      IF k = <<"Composite", <<1>>>> THEN 1 ELSE 0]
         /\ op = OpLog("capture", <<>>, OkResult, None, None,
                       Some(NewWrapper("Composite", <<1>>)))

NextExtract ==
    \/ ExtractFresh
    \/ DropFrame
    \/ GetOwnedRaw

\* one extraction pass over a fresh bundle, then the wrappers' destruction
SpecExtract == InitExtract /\ [][NextExtract]_vars

Next ==
    \/ Capture
    \/ FramesOfType
    \/ DropFrame
    \/ GetOwnedRaw
    \/ NewBlock
    \/ Queue
    \/ Deposit
    \/ Wait
    \/ Poll
    \/ DropBlock

Spec == Init /\ [][Next]_vars

\* a Spatial block was constructed; the option in question is one the
\* foreign stage supports or not, writable or read-only
InitOpt ==
    /\ InitErr
    /\ InitFrames
    /\ pbs = <<>>
    /\ qs = <<>>
    /\ blocks = <<>>
    /\ xfers = [h \in TopHandles |-> 0]
    /\ logger = [console |-> NoLevel, callback |-> NoLevel]
    /\ dl = NoDeviceList
    /\ block = [st |-> "live", kind |-> "Spatial", cap |-> MaxQueue]
    /\ stage = 0
    /\ fq = <<>>
    /\ fed = FALSE
    /\ \E s \in BOOLEAN, r \in BOOLEAN :
         opt = [supported |-> s, readonly |-> r, value |-> 0]

NextOpt ==
    \/ SupportsOption
    \/ IsOptionReadOnly
    \/ SetOption

\* the option methods of one Spatial block
SpecOpt == InitOpt /\ [][NextOpt]_vars

NextBlock ==
    \/ BlockNew
    \/ BlockClone
    \/ BlockDrop

\* construction, cloning and destruction of block values
SpecBlock == Init /\ [][NextBlock]_vars

NextRaw ==
    \/ Capture
    \/ GetOwnedRaw
    \/ FromRaw
    \/ TryFromPose
    \/ DropFrame

\* raw handles taken out of composite wrappers and given back to this layer
SpecRaw == Init /\ [][NextRaw]_vars

NextLog ==
    \/ LogToConsole
    \/ InjectRsLogToRust
    \/ ResetLogger
    \/ Callback
    \/ SeverityRoundTrip
    \/ SeverityFromForeign
    \/ DistortionFromU32
    \/ ReadConfidence
    \/ LevelRoundTrip
    \/ SeverityToLevel

\* the logging functions and the conversions of severities and kinds
SpecLog == Init /\ [][NextLog]_vars

NextComposite ==
    \/ Count
    \/ IsEmpty
    \/ Keep
    \/ FramesOfType
    \/ DropFrame
    \/ GetOwnedRaw

\* the methods of a composite frame on a freshly captured bundle
SpecComposite == InitExtract /\ [][NextComposite]_vars

NextDevList ==
    \/ FromRawList
    \/ DropList
    \/ ListIntoRaw
    \/ TryIntoIter
    \/ IterNext
    \/ DropIter

\* a device list from its wrapping to its deletion
SpecDevList == Init /\ [][NextDevList]_vars

NextTimeout ==
    \/ WaitArgument

\* the timeout of wait, over Durations below, at and beyond 2^32 - 1 ms
SpecTimeout == Init /\ [][NextTimeout]_vars

\* a block of any kind whose stage has accepted MaxFifo frames and whose
\* output queue has room for all of them
InitFifo ==
    /\ InitErr
    /\ InitFrames
    /\ InitExt
    /\ \E kind \in BlockKinds :
         block = [st |-> "live", kind |-> kind, cap |-> MaxFifo]
    /\ stage = MaxFifo
    /\ fq = <<>>
    /\ fed = TRUE

NextFifo ==
    \/ Deposit
    \/ Wait
    \/ Poll

\* the output side of one block: deposits by the stage, wait and poll
SpecFifo == InitFifo /\ [][NextFifo]_vars

----------------------------------------------------------------------------
(* Claims about the error translation layer *)

\* p is a prefix of s, character by character
HasPrefix(s, p) ==
    /\ Len(s) >= Len(p)
    /\ \A i \in 1..Len(p) : s[i] = p[i]

ErrorVariants == {"Timeout", "UnsupportedOption", "Other"}

\* C7: ErrorChecker::check returns Ok when the slot is null; for a non-null
\* error it returns Timeout iff the message starts with "Frame didn't arrive
\* within ", otherwise UnsupportedOption iff it starts with "object doesn't
\* support option #", otherwise Other: exactly one of the three.
C7_Classification ==
    eop.name = "check" =>
        /\ eop.ptr = NULL => eop.res.tag = "Ok"
        /\ eop.ptr # NULL =>
              LET msg == eres[eop.ptr].msg
                  t   == HasPrefix(msg, TimeoutPrefix)
                  u   == HasPrefix(msg, UnsupportedOptionPrefix)
              IN  /\ eop.res.tag = "Err"
                  /\ eop.res.ptr = eop.ptr
                  /\ eop.res.variant \in ErrorVariants
                  /\ eop.res.variant = "Timeout" <=> t
                  /\ eop.res.variant = "UnsupportedOption" <=> (~t /\ u)
                  /\ eop.res.variant = "Other" <=> (~t /\ ~u)

\* a message one character short of the Timeout prefix was classified Other
C7_Witness ==
    /\ eop.name = "check"
    /\ eop.ptr # NULL
    /\ eres[eop.ptr].msg = TimeoutPrefixShort
    /\ eop.res.variant = "Other"

\* C8: an ErrorChecker destroyed without check() having been called panics;
\* one on which check() was called does not panic at its destruction,
\* whether the slot was null or not.
C8_CheckerPanics ==
    /\ eop.name = "drop_checker" => panicked
    /\ eop.name = "check" => ~panicked

\* check() was called on a checker whose slot held an error: no panic
C8_Witness ==
    /\ eop.name = "check"
    /\ eop.ptr # NULL
    /\ ~panicked

\* an unchecked checker was destroyed
C8_WitnessPanic == eop.name = "drop_checker" /\ panicked

\* C10: a Timeout, UnsupportedOption or Other value destroyed normally frees
\* its resource exactly once; after into_raw the resource is never freed by
\* this layer and the raw pointer is returned; a ToCStrConversion value
\* never triggers a foreign free and its into_raw returns None.
C10_ErrorRelease ==
    \A i \in 1..Len(evals) :
        LET e == evals[i]
        IN  /\ (e.variant \in ErrorVariants /\ e.st = "dropped") =>
                  /\ e.frees = 1
                  /\ eres[e.ptr].frees = 1
            /\ (e.variant \in ErrorVariants /\ e.called) =>
                  /\ e.st = "forgotten"
                  /\ e.frees = 0
                  /\ eres[e.ptr].frees = 0
                  /\ e.raw = Some(e.ptr)
            /\ e.variant = "ToCStrConversion" =>
                  /\ e.frees = 0
                  /\ e.called => e.raw = None
            /\ (e.variant \in ErrorVariants /\ e.st = "live") =>
                  eres[e.ptr].frees = 0

\* into_raw was called on an error holding a resource and on a
\* ToCStrConversion error
C10_Witness ==
    /\ \E i \in 1..Len(evals) :
          evals[i].variant \in ErrorVariants /\ evals[i].called
    /\ \E i \in 1..Len(evals) :
          evals[i].variant = "ToCStrConversion" /\ evals[i].called

----------------------------------------------------------------------------
(* Claims about frames and processing blocks *)

\* the live wrapper values, of every category, that hold handle h
WrappersOn(h) ==
    (IF <<"Composite", h>> \in WrapperKeys
     THEN live[<<"Composite", h>>] + live[<<"Pose", h>>] ELSE 0)
        + live[<<"Depth", h>>] + live[<<"Points", h>>]

\* C1: over the lifetime of a CompositeFrame wrapper of handle h, this layer
\* calls the foreign release on h exactly once when ownership was never
\* transferred out, and not at all when get_owned_raw was called (the slot
\* is then empty and the destructor does nothing); h is never released
\* twice, nor both transferred and released by the wrapper.
C1_ReleaseOnce ==
    /\ \A h \in AllHandles : held[h] >= 0
    /\ (op.name \in {"drop", "get_owned_raw", "queue"}
            /\ op.dead[1].cat = "Composite") =>
          LET w   == op.dead[1]
              rel == CountCalls(op.calls, "rs2_release_frame", w.h)
          IN  /\ w.rel = rel
              /\ w.xfer => (rel = 0 /\ w.slot = None)
              /\ ~w.xfer => rel = 1
              /\ (op.name = "drop") <=> ~w.xfer

\* a composite wrapper whose handle was taken with get_owned_raw was
\* destroyed without a release
C1_Witness ==
    /\ op.name = "get_owned_raw"
    /\ op.dead[1].cat = "Composite"
    /\ op.dead[1].xfer
    /\ op.calls = <<>>
    /\ raws[op.dead[1].h] = 1

\* C2: after frames_of_type::<F>() over a bundle, an element is in the
\* result only if it was extendable, its construction succeeded and (F's
\* kind is Any or the value has the correct kind); every extracted element
\* that is not in the result was released exactly once; no element in the
\* result was released.
C2_Extraction ==
    op.name = "frames_of_type" =>
        \A j \in 1..Len(op.outs) :
            LET h   == ElemHandle(op.b, j - 1)
                o   == op.outs[j]
                rel == CountCalls(op.calls, "rs2_release_frame", h)
            IN  /\ op.pushed[j] =>
                      /\ o \in {"ok", "bad_kind"}
                      /\ KindIsAny(op.cat) \/ o = "ok"
                      /\ rel = 0
                      /\ live[<<op.cat, h>>] = 1
                      /\ held[h] = 1
                /\ (o # "extract_err" /\ ~op.pushed[j]) =>
                      /\ rel = 1
                      /\ live[<<op.cat, h>>] = 0
                      /\ held[h] = 0
                /\ o = "extract_err" => (rel = 0 /\ held[h] = 0)

\* one element was pushed and another, constructed but of the wrong kind,
\* was dropped unpushed
C2_Witness ==
    /\ op.name = "frames_of_type"
    /\ \E j \in 1..Len(op.outs) : op.pushed[j]
    /\ \E j \in 1..Len(op.outs) : op.outs[j] = "bad_kind" /\ ~op.pushed[j]

\* C3, as stated: each frame handle is held by at most one live wrapper.
C3_SingleWrapperPerHandle == \A h \in AllHandles : WrappersOn(h) <= 1

\* C3, as the code has it: every live wrapper and every raw handle taken
\* out owns a reference of its own; the holders of a handle never
\* outnumber the references this layer received and has not given back.
C3_OneReferencePerWrapper ==
    \A h \in AllHandles :
        /\ held[h] >= 0
        /\ WrappersOn(h) + raws[h] <= held[h]

\* two extraction passes over the same bundle left two live wrappers of
\* the same element handle, each with its own reference
C3_Witness ==
    \E h \in AllHandles : WrappersOn(h) = 2 /\ held[h] = 2

\* C4: queue(frame) takes the input's handle with get_owned_raw and passes
\* it to exactly one foreign process-frame call; whether that call succeeds
\* or fails the input handle is not released and no frame is returned; a
\* failure is reported as a ProcessFrameError.
C4_QueueHandsOver ==
    op.name = "queue" =>
        LET w == op.dead[1]
        IN  /\ w.xfer /\ w.slot = None
            /\ CountCalls(op.calls, "rs2_process_frame", w.h) = 1
            /\ Cardinality({j \in 1..Len(op.calls) :
                               op.calls[j].fn = "rs2_process_frame"}) = 1
            /\ CountCalls(op.calls, "rs2_release_frame", w.h) = 0
            /\ op.made = None
            /\ op.err = None => op.res = OkResult
            /\ op.err # None =>
                  /\ op.res.tag = "Err"
                  /\ op.res.variant = "ProcessFrameError"

\* a depth frame was queued and the foreign call failed
C4_Witness ==
    /\ op.name = "queue"
    /\ op.err # None
    /\ op.dead[1].cat = "Depth"
    /\ op.res.tag = "Err"

\* C5: poll() on an empty queue returns Pending and wraps nothing; poll()
\* on a queue holding exactly one frame returns Ready with a wrapper of
\* that frame and leaves the queue empty.
C5_PollReady ==
    (op.name = "poll" /\ op.err = None) =>
        /\ op.before = <<>> =>
              /\ op.poll = "Pending"
              /\ op.made = None
        /\ Len(op.before) = 1 =>
              /\ op.poll = "Ready"
              /\ op.made # None
              /\ op.made[1].h = op.before[1]
              /\ op.after = <<>>

\* poll() took the only frame of the queue
C5_Witness ==
    /\ op.name = "poll"
    /\ Len(op.before) = 1
    /\ op.after = <<>>

C9_ErrorOwned ==
    op.err # None =>
        /\ op.res.tag = "Err"
        /\ op.res.ptr # NULL

\* a constructor's foreign call left an error and an error was returned
C9_Witness ==
    /\ op.name = "new"
    /\ op.err # None
    /\ op.res.tag = "Err"

----------------------------------------------------------------------------
(* Claims about the options of a Spatial block *)

\* the number of calls of `calls` naming function fn
CallsOf(calls, fn) ==
    Cardinality({j \in 1..Len(calls) : calls[j].fn = fn})

C12_SetOnlyWhenWritable ==
    op.name = "set_option" =>
        /\ CallsOf(op.calls, "rs2_set_option") <= 1
        /\ CallsOf(op.calls, "rs2_set_option") = 1 =>
              /\ op.before.supported /\ ~op.before.readonly
              /\ op.q[1] = "ok" /\ op.q[2] = "ok" /\ op.q[3] = "ok"
              /\ CallsOf(op.calls, "rs2_is_option_read_only") = 1
              /\ op.res.tag = "Ok" => opt.value = op.v
              /\ op.res.tag = "Err" =>
                    /\ op.res.variant = "CouldNotSetOption"
                    /\ opt = op.before

\* the set call was issued although the read-only query left an error
C12_Witness ==
    /\ op.name = "set_option"
    /\ CallsOf(op.calls, "rs2_set_option") = 1
    /\ op.q[3] = "err"
    /\ op.before.readonly

----------------------------------------------------------------------------
(* Claims about the construction, cloning and destruction of blocks *)

\* the names of the foreign calls of `calls`, in order
FnsOf(calls) == [j \in 1..Len(calls) |-> calls[j].fn]

\* the three constructor steps, by kind of block
StepFns(kind) ==
    << CASE kind = "Align" -> "rs2_create_align"
         [] kind = "Spatial" -> "rs2_create_spatial_filter_block"
         [] OTHER -> "rs2_create_threshold",
       "rs2_create_frame_queue",
       "rs2_start_processing_queue" >>

StepVariants ==
    << "CouldNotCreateProcessingBlock", "CouldNotCreateProcessingQueue",
       "CouldNotStartProcessingQueue" >>

\* C14: a constructor performs create-stage, create-queue and
\* start-processing-queue in this order; when step k fails it returns the
\* variant of step k, performs none of the later steps and returns no block
\* value; a block value is returned only when all three steps succeeded
C14_ConstructionSteps ==
    op.name = "new" =>
        /\ op.fail # 0 =>
              /\ FnsOf(op.calls) = SubSeq(StepFns(op.kind), 1, op.fail)
              /\ op.res.tag = "Err"
              /\ op.res.variant = StepVariants[op.fail]
              /\ Len(blocks) = op.before
        /\ op.fail = 0 =>
              /\ FnsOf(op.calls) = StepFns(op.kind)
              /\ op.res.tag = "Ok"
              /\ Len(blocks) = op.before + 1
        /\ Len(blocks) > op.before =>
              /\ op.fail = 0
              /\ FnsOf(op.calls) = StepFns(op.kind)

\* a constructor has failed at its second step
C14_Witness ==
    /\ op.name = "new"
    /\ op.fail = 2
    /\ op.res.tag = "Err"
    /\ Len(op.calls) = 2

\* C15: the queue of every live block value exists and was started against
\* the stage that block value holds
C15_QueueStarted ==
    \A i \in 1..Len(blocks) :
        blocks[i].st = "live" =>
            /\ blocks[i].q \in 1..Len(qs)
            /\ blocks[i].pb \in 1..Len(pbs)
            /\ qs[blocks[i].q].bound = blocks[i].pb

\* a live block value exists after a construction in which all steps succeeded
C15_Witness ==
    /\ op.name = "new"
    /\ op.res.tag = "Ok"
    /\ \E i \in 1..Len(blocks) : blocks[i].st = "live"

\* C16: the destruction of a block value deletes its queue first and its
\* stage second, both in the same destruction
C16_DropOrder ==
    op.name = "drop_block" =>
        /\ FnsOf(op.calls) =
              <<"rs2_delete_frame_queue", "rs2_delete_processing_block">>
        /\ op.calls[1].arg = op.of.q
        /\ op.calls[2].arg = op.of.pb

\* a block value has been destroyed and its queue and stage are deleted
C16_Witness ==
    /\ op.name = "drop_block"
    /\ qs[op.of.q].deletes = 1
    /\ pbs[op.of.pb].deletes = 1

\* the live block values that hold queue q
HoldersOf(q) == {i \in 1..Len(blocks) : blocks[i].st = "live" /\ blocks[i].q = q}

\* C17: every foreign stage and every foreign queue is deleted at most once,
\* and no queue is held by two live block values
C17_DeleteOnce ==
    /\ \A p \in 1..Len(pbs) : pbs[p].deletes <= 1
    /\ \A q \in 1..Len(qs) :
          /\ qs[q].deletes <= 1
          /\ Cardinality(HoldersOf(q)) <= 1

\* a block value and its clone have both been destroyed
C17_Witness ==
    /\ op.name = "drop_block"
    /\ op.of.origin = "clone"
    /\ \A i \in 1..Len(blocks) : blocks[i].st = "dropped"
    /\ qs[op.of.q].deletes = 2

----------------------------------------------------------------------------
(* Claims about raw handles given back to this layer *)

\* the releases of top-level handle h so far: the one reference received at
\* capture, less what is still held
Releases(h) == (IF h[1] <= Len(frames) THEN 1 ELSE 0) - held[h]

\* C18: a handle taken with get_owned_raw and wrapped again with
\* CompositeFrame::from is released exactly once by the drop of the rebuilt
\* wrapper, and over the whole run it is released once, as when the first
\* wrapper is dropped without any transfer
C18_RoundTrip ==
    /\ \A h \in TopHandles :
          /\ Releases(h) \in {0, 1}
          /\ held[h] = live[<<"Composite", h>>] + live[<<"Pose", h>>] + raws[h]
    /\ (op.name = "drop" /\ op.dead[1].cat = "Composite") =>
          /\ CountCalls(op.calls, "rs2_release_frame", op.dead[1].h) = 1
          /\ Releases(op.dead[1].h) = 1

\* a wrapper rebuilt from a raw handle has been dropped
C18_Witness ==
    /\ op.name = "drop"
    /\ op.dead[1].cat = "Composite"
    /\ xfers[op.dead[1].h] >= 1
    /\ Releases(op.dead[1].h) = 1

\* C19: a failed PoseFrame::try_from releases nothing: the handle is still
\* held, unreleased, by the caller, and no wrapper owns it; the wrapper owns
\* the handle only when the conversion succeeded
C19_FailureKeepsHandle ==
    op.name = "try_from" =>
        LET h == op.calls[1].arg
        IN  /\ op.res.tag = "Err" =>
                  /\ CallsOf(op.calls, "rs2_release_frame") = 0
                  /\ op.made = None
                  /\ held[h] = 1
                  /\ raws[h] = 1
                  /\ live[<<"Pose", h>>] = 0
            /\ op.res.tag = "Ok" =>
                  /\ op.made # None
                  /\ live[<<"Pose", h>>] = 1
                  /\ raws[h] = 0
                  /\ held[h] = 1

\* a conversion has failed at the data query
C19_Witness ==
    /\ op.name = "try_from"
    /\ op.res.tag = "Err"
    /\ op.res.variant = "CouldNotGetData"
    /\ CallsOf(op.calls, "rs2_pose_frame_get_pose_data") = 1

----------------------------------------------------------------------------
(* Claims about the extendability check *)

\* C20: every wrapper of a typed category that frames_of_type, wait or poll
\* builds from an opaque handle is built after the foreign extendability
\* check on that handle in the same operation, and only when the check
\* succeeded
C20_CheckedBeforeWrap ==
    /\ op.name = "frames_of_type" =>
          \A j \in 1..Len(op.outs) :
              op.pushed[j] =>
                  /\ CountCalls(op.calls, "rs2_is_frame_extendable_to",
                                ElemHandle(op.b, j - 1)) = 1
                  /\ op.outs[j] \notin {"extract_err", "ext_err", "not_ext"}
    /\ (op.name \in {"wait", "poll"} /\ op.made # None) =>
          CountCalls(op.calls, "rs2_is_frame_extendable_to",
                     op.made[1].h) >= 1

\* wait() of an Align block has wrapped the handle it took from the queue
C20_Witness ==
    /\ op.name = "wait"
    /\ block.kind = "Align"
    /\ op.made # None
    /\ op.made[1].cat = "Composite"

----------------------------------------------------------------------------
(* Claims about the logging functions and the conversions of kinds *)

\* C21: within an operation, every foreign call that takes the error slot
\* is followed at once by the inspection of the slot, before the next
\* foreign call
C21_SlotChecked ==
    \A j \in 1..Len(op.calls) :
        op.calls[j].fn # "check_rs2_error!" =>
            /\ j < Len(op.calls)
            /\ op.calls[j + 1].fn = "check_rs2_error!"

\* the callback read a message whose first query left an error, and the
\* second query was issued all the same
C21_Witness ==
    /\ op.name = "callback"
    /\ ~op.null
    /\ op.o[1] = "err"
    /\ op.calls[1].fn = "rs2_get_raw_log_message"
    /\ op.calls[2].fn = "rs2_get_log_message_filename"

\* C24: Rs2DistortionModel::from_u32(i) is Some, of a variant whose
\* discriminant is i, for every ordinal i below RS2_DISTORTION_COUNT
C24_AllVariantsExist ==
    (op.name = "from_u32" /\ op.i < RS2_DISTORTION_COUNT) =>
        /\ op.ret # None
        /\ Rs2DistortionModel_to_u32(op.ret[1]) = op.i

\* the last ordinal below the count was converted
C24_Witness ==
    /\ op.name = "from_u32"
    /\ op.i = RS2_DISTORTION_COUNT - 1
    /\ op.ret = Some("KannalaBrandt")

\* C25: each of the seven Rs2LogSeverity values converted to the foreign
\* severity and back is itself, and every foreign severity value other than
\* those of Debug, Info, Warn, Error, Fatal and None converts to All
C25_SeverityRoundTrip ==
    /\ op.name = "severity_round_trip" => op.back = op.severity
    /\ (/\ op.name = "severity_from"
        /\ op.foreign \notin { RS2_LOG_SEVERITY_DEBUG, RS2_LOG_SEVERITY_INFO,
                               RS2_LOG_SEVERITY_WARN, RS2_LOG_SEVERITY_ERROR,
                               RS2_LOG_SEVERITY_FATAL, RS2_LOG_SEVERITY_NONE })
          => op.severity = "All"

\* All was converted to the foreign severity and back, and came back as Debug
C25_Witness ==
    /\ op.name = "severity_round_trip"
    /\ op.severity = "All"
    /\ op.foreign = RS2_LOG_SEVERITY_DEBUG
    /\ op.back = "Debug"

----------------------------------------------------------------------------
(* Claims about waiting on a processing block *)

----------------------------------------------------------------------------
(* Claims about the order of output frames *)

\* the number of frames taken out of the output queue so far (the foreign
\* stage numbers the frames it deposits 1, 2, ...)
Dequeued == Len(frames) - Len(fq)

\* C23: the frames successive wait and poll calls return are, in order, a
\* prefix of the frames the stage deposited: the queue holds the frames not
\* yet taken in deposit order, and every frame taken before a returned frame
\* was returned itself
C23_Fifo ==
    /\ \A j \in 1..Len(fq) : fq[j] = <<Dequeued + j>>
    /\ (op.name \in {"wait", "poll"} /\ op.made # None) =>
          /\ op.made[1].h = op.before[1]
          /\ op.after = Tail(op.before)
    /\ \A k \in 1..Dequeued :
          WrappersOn(<<k>>) = 1 \/ (panicked /\ k = Dequeued)

\* the second frame deposited was returned although the first never was
C23_Witness ==
    /\ Len(frames) = 2
    /\ op.name = "poll"
    /\ op.made # None
    /\ op.made[1].h = <<2>>
    /\ WrappersOn(<<1>>) = 0
    /\ held[<<1>>] = 1

----------------------------------------------------------------------------
(* Claims about the extraction loop and the composite frame's own handle *)

\* C26: an element whose extraction fails is skipped, the loop goes on
\* through every later index, a later matching element is returned all the
\* same, and frames_of_type returns no error
C26_SkipAndGoOn ==
    op.name = "frames_of_type" =>
        /\ op.res = OkResult
        /\ \A j \in 1..Len(op.outs) :
              LET h == ElemHandle(op.b, j - 1)
              IN  /\ CountCalls(op.calls, "rs2_extract_frame", h) = 1
                  /\ op.outs[j] = "extract_err" =>
                        /\ ~op.pushed[j]
                        /\ live[<<op.cat, h>>] = 0
                        /\ CountCalls(op.calls, "rs2_is_frame_extendable_to",
                                      h) = 0
                  /\ op.outs[j] = "ok" =>
                        /\ op.pushed[j]
                        /\ live[<<op.cat, h>>] = 1

\* the extraction of the first element failed and the second element,
\* a matching one, was returned
C26_Witness ==
    /\ op.name = "frames_of_type"
    /\ Len(op.outs) = 2
    /\ op.outs[1] = "extract_err"
    /\ op.outs[2] = "ok"
    /\ op.pushed[2]

\* the indexes of the handles of a returned sequence
IndexesOf(vec) == [j \in 1..Len(vec) |-> vec[j][2]]

\* C27: frames_of_type returns the matching elements in increasing index
\* order, and what it returns is decided by the bundle and the foreign
\* answers alone: the element of every index whose extraction, check,
\* construction and kind test succeeded, and no other
C27_IndexOrder ==
    op.name = "frames_of_type" =>
        /\ \A j \in 1..Len(op.vec) : op.vec[j][1] = op.b[1]
        /\ \A j \in 1..(Len(op.vec) - 1) :
              IndexesOf(op.vec)[j] < IndexesOf(op.vec)[j + 1]
        /\ {IndexesOf(op.vec)[j] : j \in 1..Len(op.vec)} =
              {j - 1 : j \in {k \in 1..Len(op.outs) :
                                \/ op.outs[k] = "ok"
                                \/ op.outs[k] = "bad_kind" /\ KindIsAny(op.cat)}}

\* two elements of a bundle were returned
C27_Witness ==
    /\ op.name = "frames_of_type"
    /\ Len(op.vec) = 2
    /\ op.vec[1] = ElemHandle(op.b, 0)
    /\ op.vec[2] = ElemHandle(op.b, 1)

\* C28: count returns the foreign count when the query succeeds and 0 when
\* it fails, the foreign error being freed once; is_empty is true exactly
\* when count is 0; frames_of_type returns nothing when the query fails
C28_CountOrZero ==
    /\ op.name \in {"count", "is_empty", "frames_of_type"} =>
          /\ CountCalls(op.calls, "rs2_embedded_frames_count", op.b) = 1
          /\ CallsOf(op.calls, "rs2_free_error") >= (IF op.countOk THEN 0 ELSE 1)
          /\ ~op.countOk => CallsOf(op.calls, "rs2_free_error") = 1
    /\ op.name = "count" =>
          /\ op.countOk => op.ret = frames[op.b[1]].nelems
          /\ op.countOk => CallsOf(op.calls, "rs2_free_error") = 0
          /\ ~op.countOk => op.ret = 0
    /\ op.name = "is_empty" =>
          (op.ret <=> (~op.countOk \/ frames[op.b[1]].nelems = 0))
    /\ (op.name = "frames_of_type" /\ ~op.countOk) =>
          /\ op.vec = <<>>
          /\ CallsOf(op.calls, "rs2_extract_frame") = 0

\* the count query failed on a bundle that has elements
C28_Witness ==
    /\ op.name = "count"
    /\ ~op.countOk
    /\ frames[op.b[1]].nelems > 0
    /\ op.ret = 0

\* C29: frames_of_type, count, is_empty and keep never release the
\* composite frame's own handle and leave it in the wrapper; the destruction
\* of the wrapper then releases it exactly once
C29_BundleHandleKept ==
    /\ op.name \in {"count", "is_empty", "keep", "frames_of_type"} =>
          /\ CountCalls(op.calls, "rs2_release_frame", op.b) = 0
          /\ live[<<"Composite", op.b>>] = 1
          /\ held[op.b] = 1
    /\ (op.name = "drop" /\ op.dead[1].cat = "Composite") =>
          /\ CountCalls(op.calls, "rs2_release_frame", op.dead[1].h) = 1
          /\ Len(op.calls) = 1
          /\ held[op.dead[1].h] = 0
    /\ \A b \in TopHandles :
          /\ held[b] = live[<<"Composite", b>>] + raws[b]
          /\ held[b] \in {0, 1}

\* an extraction pass returned an element and the bundle handle is still
\* held by its wrapper
C29_Witness ==
    /\ op.name = "frames_of_type"
    /\ Len(op.vec) >= 1
    /\ live[<<"Composite", op.b>>] = 1
    /\ held[op.b] = 1

\* C30: PoseFrame::try_from queries the stream profile first and the pose
\* data second; a failed profile query gives CouldNotGetFrameStreamProfile
\* and no data query, a failed data query gives CouldNotGetData, and a value
\* holding the handle is returned only when both queries succeeded
C30_ProfileThenData ==
    op.name = "try_from" =>
        LET profile == "rs2_get_frame_stream_profile"
            data    == "rs2_pose_frame_get_pose_data"
        IN  /\ op.calls[1].fn = profile
            /\ op.outcome = "profile_err" =>
                  /\ op.res.tag = "Err"
                  /\ op.res.variant = "CouldNotGetFrameStreamProfile"
                  /\ FnsOf(op.calls) = <<profile>>
            /\ op.outcome = "data_err" =>
                  /\ op.res.tag = "Err"
                  /\ op.res.variant = "CouldNotGetData"
                  /\ FnsOf(op.calls) = <<profile, data>>
            /\ op.made # None =>
                  /\ op.outcome = "ok"
                  /\ op.res = OkResult
                  /\ FnsOf(op.calls) = <<profile, data>>
                  /\ op.made[1].slot = Some(op.calls[1].arg)
            /\ op.outcome = "ok" => op.made # None

\* a conversion has failed at the stream profile query
C30_Witness ==
    /\ op.name = "try_from"
    /\ op.outcome = "profile_err"
    /\ op.res.variant = "CouldNotGetFrameStreamProfile"
    /\ op.made = None

----------------------------------------------------------------------------
(* Claims about failed constructions and timed-out waits *)

\* the block values, live or dropped, that were given stage p / queue q
OwnersOfStage(p) == {i \in 1..Len(blocks) : blocks[i].pb = p}
OwnersOfQueue(q) == {i \in 1..Len(blocks) : blocks[i].q = q}

\* C31: a constructor that fails at create-queue or at start-queue issues
\* no delete call: the stage it created, and the queue when start failed,
\* stay undeleted and belong to no block value, then and ever after
C31_NoCleanup ==
    /\ (op.name = "new" /\ op.fail \in {2, 3}) =>
          /\ CallsOf(op.calls, "rs2_delete_processing_block") = 0
          /\ CallsOf(op.calls, "rs2_delete_frame_queue") = 0
          /\ Len(pbs) >= 1
          /\ pbs[Len(pbs)].deletes = 0
          /\ OwnersOfStage(Len(pbs)) = {}
          /\ op.fail = 3 =>
                /\ Len(qs) >= 1
                /\ qs[Len(qs)].deletes = 0
                /\ qs[Len(qs)].bound = NULL
                /\ OwnersOfQueue(Len(qs)) = {}
    /\ \A p \in 1..Len(pbs) : OwnersOfStage(p) = {} => pbs[p].deletes = 0
    /\ \A q \in 1..Len(qs) : OwnersOfQueue(q) = {} => qs[q].deletes = 0

\* a constructor failed at start-queue, leaving a stage and a queue behind
C31_Witness ==
    /\ op.name = "new"
    /\ op.fail = 3
    /\ op.res.variant = "CouldNotStartProcessingQueue"
    /\ pbs[Len(pbs)].deletes = 0
    /\ qs[Len(qs)].deletes = 0

\* C32: a wait that returns an error has issued one foreign wait call, has
\* wrapped and taken nothing and leaves the block as it was; a wait on a
\* queue that holds a deposited frame, the foreign call succeeding, returns
\* that frame
C32_TimeoutThenFrame ==
    /\ (op.name = "wait" /\ op.res.tag = "Err") =>
          /\ FnsOf(op.calls) = <<"rs2_wait_for_frame">>
          /\ op.made = None
          /\ op.after = op.before
          /\ block.st = "live"
          /\ ~panicked
    /\ (op.name = "wait" /\ op.err = None /\ op.before # <<>>) =>
          /\ op.made # None
          /\ op.made[1].h = op.before[1]
          /\ ~panicked

\* a wait took the deposited frame out of the queue and returned no frame
C32_Witness ==
    /\ op.name = "wait"
    /\ op.err = None
    /\ op.before # <<>>
    /\ op.after = Tail(op.before)
    /\ op.made = None
    /\ panicked

\* C33: the timeout wait hands to the foreign call is the Duration's whole
\* millisecond count when that is at most 2^32 - 1, whatever the part below
\* one millisecond, and 2^32 - 1 for every longer Duration
C33_TimeoutClamped ==
    op.name = "wait_timeout" =>
        LET ms  == op.timeout.millis
            arg == op.calls[1].arg
        IN  /\ arg.hi \in 0..(Limb - 1)
            /\ arg.lo \in 0..(Limb - 1)
            /\ ms.hi <= Limb - 1 => arg = ms
            /\ ms.hi >= Limb => arg = [hi |-> Limb - 1, lo |-> Limb - 1]

\* a Duration of 2^32 ms and a bit was clamped
C33_Witness ==
    /\ op.name = "wait_timeout"
    /\ op.timeout = [millis |-> [hi |-> Limb, lo |-> 0], sub |-> 999999]
    /\ op.calls[1].arg = u32_MAX

\* C34: every handle wait or poll takes out of the output queue is, when
\* the call is over, inside a frame value returned to the caller or
\* released by this layer
C34_DequeuedOwnedOrReleased ==
    (op.name \in {"wait", "poll"} /\ op.after # op.before) =>
        LET h == op.before[1]
        IN  \/ /\ op.made # None
               /\ op.made[1].slot = Some(h)
            \/ CountCalls(op.calls, "rs2_release_frame", h) = 1

\* poll of a Spatial block took a frame out of the queue, the conversion
\* failed, and the handle is held by no wrapper and was not released
C34_Witness ==
    /\ op.name = "poll"
    /\ block.kind = "Spatial"
    /\ op.after # op.before
    /\ op.made = None
    /\ op.inner = "Err"
    /\ held[op.before[1]] = 1
    /\ WrappersOn(op.before[1]) = 0
    /\ ~panicked

\* the items next() has returned so far that are not None
Yielded == SelectSeq(dl.items, LAMBDA it : it.ret # None)

\* the positions in the history of next() where the iterator must be over:
\* a None, an error item, or the item of index len - 1
EndsAt(j) ==
    \/ dl.items[j].ret = None
    \/ dl.items[j].ret[1].tag = "Err"
    \/ dl.items[j].ret[1].index = dl.len - 1

\* C35: an iterator over a list of length len yields at most len items, the
\* devices with indexes 0, 1, 2, ... in order, keeps index <= len, and is
\* fused: after a None, an error item or the item of index len - 1 every
\* next() returns None without a foreign call; for len = 0 the first next()
\* returns None; an error at index i is the only error item and no device
\* of index >= i is produced
C35_FusedInOrder ==
    dl.owner \in {"iter", "gone"} =>
        /\ dl.index <= dl.len
        /\ Len(Yielded) <= dl.len
        /\ \A j \in 1..Len(dl.items) :
             /\ (dl.items[j].ret # None /\ dl.items[j].ret[1].tag = "Ok") =>
                    dl.items[j].ret[1].index = j - 1
             /\ EndsAt(j) =>
                    \A k \in (j + 1)..Len(dl.items) :
                        /\ dl.items[k].ret = None
                        /\ dl.items[k].calls = <<>>
        /\ (dl.len = 0 /\ Len(dl.items) >= 1) =>
               /\ dl.items[1].ret = None
               /\ dl.items[1].calls = <<>>
        /\ \A j \in 1..Len(dl.items) :
             (dl.items[j].ret # None /\ dl.items[j].ret[1].tag = "Err") =>
                 \A k \in 1..Len(dl.items) :
                     (k # j /\ dl.items[k].ret # None) =>
                         /\ dl.items[k].ret[1].tag = "Ok"
                         /\ dl.items[k].ret[1].index
                                < dl.items[j].ret[1].index

\* an iterator over two devices gave the first, then an error item at
\* index 1, then None twice
C35_Witness ==
    /\ dl.owner = "iter"
    /\ dl.len = 2
    /\ Len(dl.items) = 4
    /\ dl.items[1].ret = Some(DeviceItem("Ok", 0))
    /\ dl.items[2].ret = Some(DeviceItem("Err", 1))
    /\ dl.items[3].ret = None
    /\ dl.items[4].ret = None
    /\ dl.fused

\* C36: the device-list handle is deleted exactly once over every lifetime:
\* by the DeviceList when it is dropped or when try_into_iter fails, by the
\* iterator after a try_into_iter that succeeded, and never after into_raw
C36_DeletedOnce ==
    /\ dl.owner \in {"none", "list", "iter", "raw"} => dl.deletes = 0
    /\ dl.owner = "gone" => dl.deletes = 1
    /\ op.name = "drop_list" =>
           /\ dl.owner = "gone"
           /\ CountCalls(op.calls, "rs2_delete_device_list", <<>>) = 1
    /\ op.name = "drop_iter" =>
           /\ dl.owner = "gone"
           /\ CountCalls(op.calls, "rs2_delete_device_list", <<>>) = 1
    /\ (op.name = "try_into_iter" /\ op.res.tag = "Ok") =>
           /\ dl.owner = "iter"
           /\ CountCalls(op.calls, "rs2_delete_device_list", <<>>) = 0
    /\ (op.name = "try_into_iter" /\ op.res.tag = "Err") =>
           /\ dl.owner = "gone"
           /\ CountCalls(op.calls, "rs2_delete_device_list", <<>>) = 1
    /\ op.name = "into_raw" =>
           /\ dl.owner = "raw"
           /\ op.calls = <<>>

\* a list was turned into an iterator, the iterator gave a device and was
\* dropped: one deletion
C36_Witness ==
    /\ op.name = "drop_iter"
    /\ dl.owner = "gone"
    /\ dl.deletes = 1
    /\ Len(dl.items) >= 1
    /\ dl.items[1].ret = Some(DeviceItem("Ok", 0))

\* C37: tracker_confidence decodes the tracker-confidence value and
\* mapper_confidence the mapper-confidence value, 0 -> Failed, 1 -> Low,
\* 2 -> Medium, 3 -> High and a panic otherwise, so the result of
\* mapper_confidence depends on the mapper-confidence value only
C37_MapperFromMapper ==
    op.name = "confidence" =>
        /\ op.tracker = Confidence(op.data.tracker_confidence)
        /\ op.mapper = Confidence(op.data.mapper_confidence)

\* a pose frame whose mapper confidence is 3 and tracker confidence 0:
\* mapper_confidence returns Failed
C37_Witness ==
    /\ op.name = "confidence"
    /\ op.data = [tracker_confidence |-> 0, mapper_confidence |-> 3]
    /\ op.tracker = "Failed"
    /\ op.mapper = "Failed"

\* C38: every log::Level converted to Rs2LogSeverity and back is itself;
\* Rs2LogSeverity Fatal and None both convert to log::Level::Error, and All
\* converts to Trace
C38_LevelRoundTrip ==
    /\ op.name = "level_round_trip" => op.back = op.level
    /\ op.name = "severity_to_level" =>
           /\ op.severity \in {"Fatal", "None"} => op.level = "Error"
           /\ op.severity = "All" => op.level = "Trace"

\* Trace went to All and came back as Trace
C38_Witness ==
    /\ op.name = "level_round_trip"
    /\ op.level = "Trace"
    /\ op.severity = "All"
    /\ op.back = "Trace"

=============================================================================
